---- MODULE Spec2Model ----
(***************************************************************************)
(* Model of the MMVJ event-transformation engine: the driver's engine      *)
(* restart loop (src/src/driver.rs), the virtual joystick manager          *)
(* (src/src/joystick.rs), the mapping engine's router, idle-tick scheduler *)
(* and transformation pipeline (src/src/mapping.rs), the closed interval   *)
(* (src/src/common.rs) and the configuration resolution                    *)
(* (src/src/config.rs).                                                    *)
(*                                                                         *)
(* f32 quantities are modelled in fixed point: the f32 value x is the      *)
(* integer x * FixedOne, products are rescaled by FixedOne and division    *)
(* rounds down.  Instants are integer seconds.                             *)
(***************************************************************************)
EXTENDS Integers, Sequences, FiniteSets, TLC

VARIABLES
    phase,              \* position of run_mapping_engine
    config,             \* config_manager: the resolved configuration
    loads,              \* number of engine starts ('engine_restart iterations)
    CURRENT_STATE_ID,   \* static counter of resolve_transformation_step
    joysticks,          \* VirtualJoystickManager.joysticks
    ffConsumers,        \* FF consumer threads that were not told to stop
    mouseReaders,       \* mouse reader task per opened device key
    midiConnections,    \* MidiManager.connections (opened port names)
    router,             \* MappingEngine.router
    idle_tick_mappings, \* MappingEngine.idle_tick_mappings
    idle_flags,         \* idle_tick_enabled_flag per destination control
    step_data,          \* MappingEngine.transform_step_data
    now,                \* Instant::now()
    last,               \* history: the last operation and its pipeline runs
    midi_channel,       \* MidiManager.message_receiver: the messages not yet received
    mouse_channel,      \* MouseManager.receiver: the events not yet received
    ticker_due,         \* the ticker of run() completed a period that was not served
    overlay             \* overlay threads of each engine and their cancellation token

vars == <<phase, config, loads, CURRENT_STATE_ID, joysticks, ffConsumers,
          mouseReaders, midiConnections, router, idle_tick_mappings,
          idle_flags, step_data, now, last, midi_channel, mouse_channel, ticker_due,
          overlay>>

\* the state of the select! loop of run() and of the overlay threads
loop_vars == <<midi_channel, mouse_channel, ticker_due, overlay>>

\* ------------------------------------------------------------------
\* Bounds of the model
\* ------------------------------------------------------------------
MaxLoads == 2
MaxNow == 1
MaxQueue == 1
MaxOverlayThreads == 2
MaxPipeNow == 3

\* ------------------------------------------------------------------
\* Numbers
\* ------------------------------------------------------------------
FixedOne == 2 ^ 6

None == <<>>
Some(v) == <<v>>
IsSome(o) == o # <<>>
UnwrapOr(o, d) == IF o = <<>> THEN d ELSE o[1]

Abs(x) == IF x < 0 THEN -x ELSE x
Max(a, b) == IF a > b THEN a ELSE b
Min(a, b) == IF a < b THEN a ELSE b

\* f32 -> i32 conversion (`value as i32`): truncation toward zero
AsI32(x) == IF x >= 0 THEN x \div FixedOne ELSE -((-x) \div FixedOne)
\* i32 -> f32 conversion
AsF32(i) == i * FixedOne
\* f32 product of two fixed-point numbers
FMul(a, b) == (a * b) \div FixedOne

\* ------------------------------------------------------------------
\* NumInterval (src/src/common.rs)
\* ------------------------------------------------------------------
NumIntervalNew(a, b) == IF a > b THEN [from |-> b, to |-> a] ELSE [from |-> a, to |-> b]

span_w(r) == r.to - r.from

\* PartialEq for NumInterval compares the spans only
IntervalEq(r1, r2) == span_w(r1) = span_w(r2)

contains_inclusive(r, v) == v >= r.from /\ v <= r.to

\* variant of clamp that lets every value through
Unclamped(r, v) == v

clamp(r, v) == IF v < r.from THEN r.from ELSE IF v > r.to THEN r.to ELSE v

\* Result: <<ok, value>>
try_invert_value(r, v) ==
    IF contains_inclusive(r, v) THEN <<TRUE, (r.to + r.from) - v>> ELSE <<FALSE, 0>>

clamp_and_invert(r, v) ==
    LET res == try_invert_value(r, clamp(r, v)) IN IF res[1] THEN res[2] ELSE v

\* the result is an f32 in the unit interval, in fixed point
normalize_to_unit(r, v) ==
    IF span_w(r) = 0 THEN 0 ELSE ((v - r.from) * FixedOne) \div span_w(r)

\* the guard `normalized < 0 && normalized > 1` of the source never holds
denormalize_from_unit(r, u) == r.from + (span_w(r) * u) \div FixedOne

map_from(r, v, input_range) == denormalize_from_unit(r, normalize_to_unit(input_range, v))

\* NumInterval<i32>::cast::<f32>()
CastF32(r) == [from |-> AsF32(r.from), to |-> AsF32(r.to)]

SYMM_UNIT_INTERVAL == NumIntervalNew(-FixedOne, FixedOne)
UNIT_INTERVAL == NumIntervalNew(0, FixedOne)

\* ------------------------------------------------------------------
\* Configuration as deserialized (src/src/schemas.rs)
\* ------------------------------------------------------------------
MidiPorts == {"portA", "portB"}     \* MIDI ports present on the system
MouseNames == {"mouseA"}            \* mouse devices present on the system

\* --persistent-joysticks was not given on the command line
persistent_joysticks_cli == {}

NoStateId == 0 - 1

\* a transformation step; `p` holds the parameters of the step kind
Step(kind, p) == [kind |-> kind, runtime_state_id |-> NoStateId, ema_id |-> NoStateId, p |-> p]

HoldValue(v) == [kind |-> "Value", v |-> v, device |-> "", control |-> "",
                 range |-> NumIntervalNew(0, 0)]
HoldReference(d, c) == [kind |-> "Reference", v |-> 0, device |-> d, control |-> c,
                        range |-> NumIntervalNew(0, 0)]

FFConfig == [enabled |-> TRUE, constant_force_scale |-> FixedOne,
             constant_force_invert |-> FALSE, constant_force_influence |-> FixedOne]

SteeringStep == Step("Steering",
    [counts_to_lock |-> AsF32(4), smoothing_alpha |-> FixedOne, auto_center_halflife |-> 1,
     hold_factor |-> None, force_feedback |-> Some(FFConfig)])

IntegrateStep == Step("Integrate", [range |-> Some(NumIntervalNew(0, AsF32(2))), deadzone_norm |-> None])

InvertStep == Step("Invert", [is_relative |-> FALSE])

ClampKeepStep == Step("Clamp", [from |-> Some(1), to |-> None, override_range |-> FALSE])

ClampOverrideStep == Step("Clamp", [from |-> Some(0), to |-> Some(2), override_range |-> TRUE])

LinearStep == Step("Linear", [slope |-> Some(2 * FixedOne), shift_x |-> None, shift_y |-> None,
                              on_idle |-> None])

PedalStep == Step("PedalSmoother",
    [rise_rate |-> AsF32(1), fall_rate |-> AsF32(1), smoothing_alpha |-> FixedOne,
     fall_delay |-> Some(1), fall_gentling_factor |-> Some(HoldReference("js1", "AbsX"))])

MidiSpec(t, ch, num) == [msg_type |-> t, channel |-> ch, number |-> num]
ChannelAny == [kind |-> "Any", n |-> 0]
ChannelNumber(n) == [kind |-> "Number", n |-> n]
NumSingle(n) == [kind |-> "Single", n |-> n, numbers |-> {}, s |-> ""]
NumMultiple(numbers) == [kind |-> "Multiple", n |-> 0, numbers |-> numbers, s |-> ""]
NumSpecial(s) == [kind |-> "Special", n |-> 0, numbers |-> {}, s |-> s]

Mapping(name, en, sdev, sctl, djoy, dctl, steps) ==
    [name |-> name, enabled |-> en, source |-> [device |-> sdev, control |-> sctl],
     destination |-> [joystick |-> djoy, control |-> dctl], transformation |-> steps]

M1 == Mapping("M1", TRUE, "mouse1", "RelX", "js1", "AbsX", <<SteeringStep>>)
M2 == Mapping("M2", TRUE, "mouse1", "RelY", "js1", "AbsX",
              <<IntegrateStep, InvertStep, ClampKeepStep, LinearStep>>)
M3 == Mapping("M3", TRUE, "midi1", "cc2", "js2", "AbsY", <<ClampOverrideStep, PedalStep>>)
M4 == Mapping("M4", TRUE, "midi2", "cc1", "js2", "AbsY", <<LinearStep>>)
M5 == Mapping("M5", TRUE, "midi1", "cc1", "js2", "Btn", <<>>)
M6 == Mapping("M6", FALSE, "midi1", "cc1", "js1", "AbsX", <<LinearStep>>)

\* the mapping lists of the configuration files
SteeringMappings == <<M1, M2, M5, M6>>
PedalMappings == <<M3, M4, M5>>

JoyControl(t, r, init) == [type |-> t, range |-> r, initial_value |-> init]

\* a configuration file that deserializes: js1 and the mapping list vary
MkConfig(js1_enabled, js1_persistent, absx_range, mappings) ==
    [parses |-> TRUE,
     global |-> [persistent_joysticks |-> FALSE],
     midi_devices |->
        [k \in {"midi1", "midi2"} |->
            IF k = "midi1"
            THEN [enabled |-> TRUE, matches |-> MidiPorts,
                  controls |-> [c \in {"cc1", "cc2"} |->
                      [midi_message |-> Some(MidiSpec("ControlChange", ChannelAny,
                                              Some(NumSingle(IF c = "cc1" THEN 1 ELSE 2)))),
                       range |-> Some(NumIntervalNew(0, 4))]]]
            ELSE [enabled |-> FALSE, matches |-> MidiPorts,
                  controls |-> [c \in {"cc1"} |->
                      [midi_message |-> Some(MidiSpec("ControlChange", ChannelAny,
                                                             Some(NumSingle(1)))),
                       range |-> None]]]],
     mouse_devices |->
        [k \in {"mouse1"} |->
            [enabled |-> TRUE, matches |-> MouseNames,
             controls |-> [c \in {"RelX", "RelY"} |->
                 [type |-> c, range |-> NumIntervalNew(0 - 2, 2)]]]],
     virtual_joysticks |->
        [k \in {"js1", "js2"} |->
            IF k = "js1"
            THEN [enabled |-> js1_enabled, persistent |-> Some(js1_persistent),
                  force_feedback |-> Some([enabled |-> TRUE]),
                  controls |-> [c \in {"AbsX"} |-> JoyControl("Absolute", absx_range, 0)]]
            ELSE [enabled |-> Some(TRUE), persistent |-> None,
                  force_feedback |-> None,
                  controls |-> [c \in {"AbsY", "Btn"} |->
                      IF c = "AbsY" THEN JoyControl("Absolute", NumIntervalNew(0, 8), 0)
                      ELSE JoyControl("Button", NumIntervalNew(0, 1), 0)]]],
     mappings |-> mappings]

\* a file that does not deserialize (YAML error, unknown field, ...)
BrokenConfig == [parses |-> FALSE]

SymmRange == NumIntervalNew(0 - 2, 2)
PosRange == NumIntervalNew(0, 4)

ValidConfigs ==
    { MkConfig(None, TRUE, SymmRange, SteeringMappings),
      MkConfig(Some(FALSE), TRUE, SymmRange, SteeringMappings),
      MkConfig(Some(TRUE), FALSE, PosRange, PedalMappings) }

ConfigFiles == ValidConfigs \cup {BrokenConfig}

\* ------------------------------------------------------------------
\* Configuration resolution (src/src/config.rs)
\* ------------------------------------------------------------------
is_ff_enabled(joystick) ==
    IF joystick.force_feedback = None THEN FALSE ELSE joystick.force_feedback[1].enabled

resolve_virtual_joystick(global, joystick) ==
    [enabled |-> UnwrapOr(joystick.enabled, TRUE),
     persistent |-> UnwrapOr(joystick.persistent, global.persistent_joysticks),
     controls |-> joystick.controls,
     force_feedback |-> joystick.force_feedback]

resolve_all_devices(file) ==
    [midi_devices |-> file.midi_devices,
     mouse_devices |-> file.mouse_devices,
     virtual_joysticks |->
        [k \in DOMAIN file.virtual_joysticks |->
            resolve_virtual_joystick(file.global, file.virtual_joysticks[k])]]

HasControl(devices, device_key, control_key) ==
    /\ device_key \in DOMAIN devices
    /\ control_key \in DOMAIN devices[device_key].controls

\* Option<NumInterval<i32>>: a MIDI control found first answers with its own
\* optional range
lookup_control_range(devs, device_key, control_key) ==
    IF HasControl(devs.midi_devices, device_key, control_key)
    THEN devs.midi_devices[device_key].controls[control_key].range
    ELSE IF HasControl(devs.mouse_devices, device_key, control_key)
    THEN Some(devs.mouse_devices[device_key].controls[control_key].range)
    ELSE IF HasControl(devs.virtual_joysticks, device_key, control_key)
    THEN Some(devs.virtual_joysticks[device_key].controls[control_key].range)
    ELSE None

resolve_hold_factor(devs, factor) ==
    LET Referenced(range) ==
            IF IsSome(range)
            THEN [ok |-> TRUE, v |-> Some([factor[1] EXCEPT !.range = range[1]])]
            ELSE [ok |-> FALSE, v |-> None]
    IN IF factor = None THEN [ok |-> TRUE, v |-> None]
       ELSE IF factor[1].kind = "Value" THEN [ok |-> TRUE, v |-> factor]
       ELSE Referenced(lookup_control_range(devs, factor[1].device, factor[1].control))

\* variant of resolve_transformation_step that leaves the counter where it is
ResolveStepKeepingCounter(devs, step, id) ==
    LET Stateful(hf) ==
            [ok |-> hf.ok, id |-> id,
             step |-> [step EXCEPT !.runtime_state_id = id,
                                   !.ema_id = IF step.kind = "Steering" THEN id ELSE @]]
    IN CASE step.kind = "Steering" ->
               Stateful(resolve_hold_factor(devs, step.p.hold_factor))
         [] step.kind = "PedalSmoother" ->
               Stateful(resolve_hold_factor(devs, step.p.fall_gentling_factor))
         [] step.kind \in {"Integrate", "EmaFilter", "LowPass"} ->
               Stateful([ok |-> TRUE, v |-> None])
         [] OTHER -> [ok |-> TRUE, id |-> id, step |-> step]

\* `id` is CURRENT_STATE_ID before the step; the result carries it afterwards
resolve_transformation_step(devs, step, id) ==
    LET Steering(hf) ==
            IF hf.ok
            THEN [ok |-> TRUE, id |-> id + 2,
                  step |-> [step EXCEPT !.runtime_state_id = id, !.ema_id = id + 1,
                                        !.p.hold_factor = hf.v]]
            ELSE [ok |-> FALSE, id |-> id + 1, step |-> step]
        PedalSmoother(hf) ==
            [ok |-> hf.ok, id |-> id + 1,
             step |-> [step EXCEPT !.runtime_state_id = id, !.p.fall_gentling_factor = hf.v]]
    IN CASE step.kind = "Steering" ->
               Steering(resolve_hold_factor(devs, step.p.hold_factor))
         [] step.kind = "PedalSmoother" ->
               PedalSmoother(resolve_hold_factor(devs, step.p.fall_gentling_factor))
         [] step.kind \in {"Integrate", "EmaFilter", "LowPass"} ->
               [ok |-> TRUE, id |-> id + 1, step |-> [step EXCEPT !.runtime_state_id = id]]
         [] OTHER -> [ok |-> TRUE, id |-> id, step |-> step]

RECURSIVE resolve_transformation(_, _, _)
resolve_transformation(devs, steps, id) ==
    LET Both(h, t) == [ok |-> t.ok, id |-> t.id, steps |-> <<h.step>> \o t.steps]
        First(h) ==
            IF ~h.ok THEN [ok |-> FALSE, id |-> h.id, steps |-> <<>>]
            ELSE Both(h, resolve_transformation(devs, Tail(steps), h.id))
    IN IF steps = <<>> THEN [ok |-> TRUE, id |-> id, steps |-> <<>>]
       ELSE First(resolve_transformation_step(devs, Head(steps), id))

resolve_source(devs, source) ==
    IF HasControl(devs.midi_devices, source.device, source.control)
    THEN LET c == devs.midi_devices[source.device].controls[source.control] IN
         [ok |-> TRUE, device_key |-> source.device, control_key |-> source.control,
          kind |-> "Midi", range |-> c.range, midi_message |-> c.midi_message, type |-> ""]
    ELSE IF HasControl(devs.mouse_devices, source.device, source.control)
    THEN LET c == devs.mouse_devices[source.device].controls[source.control] IN
         [ok |-> TRUE, device_key |-> source.device, control_key |-> source.control,
          kind |-> "Mouse", range |-> Some(c.range), midi_message |-> None, type |-> c.type]
    ELSE [ok |-> FALSE]

\* `joystick` is the joystick as deserialized (config.virtual_joysticks)
resolve_destination(file, devs, dest) ==
    IF HasControl(devs.virtual_joysticks, dest.joystick, dest.control)
    THEN [ok |-> TRUE, device_key |-> dest.joystick, control_key |-> dest.control,
          joystick |-> [enabled |-> file.virtual_joysticks[dest.joystick].enabled,
                        persistent |-> file.virtual_joysticks[dest.joystick].persistent],
          control |-> devs.virtual_joysticks[dest.joystick].controls[dest.control]]
    ELSE [ok |-> FALSE]

\* disabled mappings are not resolved at all
RECURSIVE resolve_mappings(_, _, _, _)
resolve_mappings(file, devs, mappings, id) ==
    LET mapping == Head(mappings)
        Resolved(source, destination, tr, t) ==
            [ok |-> t.ok, id |-> t.id,
             mappings |-> <<[name |-> mapping.name, enabled |-> mapping.enabled,
                             source |-> source, destination |-> destination,
                             transformation |-> tr.steps]>> \o t.mappings]
        WithSteps(source, destination, tr) ==
            IF ~tr.ok THEN [ok |-> FALSE, id |-> tr.id, mappings |-> <<>>]
            ELSE Resolved(source, destination, tr,
                          resolve_mappings(file, devs, Tail(mappings), tr.id))
        WithEnds(source, destination) ==
            IF ~source.ok \/ ~destination.ok
            THEN [ok |-> FALSE, id |-> id, mappings |-> <<>>]
            ELSE WithSteps(source, destination,
                           resolve_transformation(devs, mapping.transformation, id))
    IN IF mappings = <<>> THEN [ok |-> TRUE, id |-> id, mappings |-> <<>>]
       ELSE IF ~mapping.enabled THEN resolve_mappings(file, devs, Tail(mappings), id)
       ELSE WithEnds(resolve_source(devs, mapping.source),
                     resolve_destination(file, devs, mapping.destination))

NoConfig == [midi_devices |-> <<>>, mouse_devices |-> <<>>, virtual_joysticks |-> <<>>,
             mappings |-> <<>>]

\* ConfigManager::load of the file content `file`
load(file, id) ==
    LET Loaded(devs, ms) ==
            [ok |-> ms.ok, id |-> ms.id,
             config |-> [midi_devices |-> devs.midi_devices,
                         mouse_devices |-> devs.mouse_devices,
                         virtual_joysticks |-> devs.virtual_joysticks,
                         mappings |-> ms.mappings]]
        Resolved(devs) == Loaded(devs, resolve_mappings(file, devs, file.mappings, id))
    IN IF ~file.parses THEN [ok |-> FALSE, id |-> id, config |-> NoConfig]
       ELSE Resolved(resolve_all_devices(file))

\* ------------------------------------------------------------------
\* HashMap helpers
\* ------------------------------------------------------------------
Put(map, k, v) == [x \in (DOMAIN map) \cup {k} |-> IF x = k THEN v ELSE map[x]]
Get(map, k) == IF k \in DOMAIN map THEN Some(map[k]) ELSE None
Retain(map, keep) == [x \in keep |-> map[x]]

\* ------------------------------------------------------------------
\* Virtual joysticks (src/src/joystick.rs).  The manager state `mgr` is
\* [joysticks, consumers]: the joystick map and the FF consumer threads
\* whose cancellation token was not cancelled.
\* ------------------------------------------------------------------
\* FfWorkingState::default() and the locals of ff_consumer_thread; `at` is
\* the position of the thread in its loop
FfThreadNew ==
    [at |-> "play",
     ff_working_state |-> [uploaded_effects |-> <<>>, played_effect |-> None],
     sleep_millis |-> 0,
     collected_events |-> <<>>]

\* the uinput device as built: no event is queued, the kernel holds no
\* effect of the device, no upload was answered
UInputNew == [events |-> <<>>, effects |-> {}, retval |-> None]

VirtualJoystickNew(joystick_config_key, rj, is_persistent, inst) ==
    [config_key |-> joystick_config_key,
     inst |-> inst,
     is_persistent |-> is_persistent,
     control_states |-> [c \in DOMAIN rj.controls |-> rj.controls[c].initial_value],
     control_info |-> [c \in DOMAIN rj.controls |-> rj.controls[c].type],
     ff_enabled |-> is_ff_enabled(rj),
     ff_played_summ_norm |-> 0,
     ff_thread |-> FfThreadNew,
     platform_device_api |-> UInputNew]

\* the consumer threads of the joysticks `keys` are cancelled
stop_ff_thread(mgr, keys) ==
    mgr.consumers \ {<<k, mgr.joysticks[k].inst>> : k \in {x \in keys : mgr.joysticks[x].ff_enabled}}

create_virtual_joystick(mgr, name, rj, is_persistent, inst) ==
    IF name \in DOMAIN mgr.joysticks
    THEN [mgr EXCEPT !.joysticks[name].is_persistent = is_persistent]
    ELSE [joysticks |-> Put(mgr.joysticks, name, VirtualJoystickNew(name, rj, is_persistent, inst)),
          consumers |-> IF is_ff_enabled(rj) THEN mgr.consumers \cup {<<name, inst>>}
                        ELSE mgr.consumers]

destroy_virtual_joystick_if_exists(mgr, joystick_config_key) ==
    LET gone == {k \in DOMAIN mgr.joysticks : mgr.joysticks[k].config_key = joystick_config_key} IN
    [joysticks |-> Retain(mgr.joysticks, DOMAIN mgr.joysticks \ gone),
     consumers |-> stop_ff_thread(mgr, gone)]

\* variant of stop that removes every joystick, persistent or not
StopRemovingAll(mgr, full_shutdown) ==
    [joysticks |-> Retain(mgr.joysticks, {}),
     consumers |-> stop_ff_thread(mgr, DOMAIN mgr.joysticks)]

\* variant of stop that keeps the persistent joysticks on a full shutdown too
StopKeepingPersistent(mgr, full_shutdown) ==
    LET kept == {k \in DOMAIN mgr.joysticks : mgr.joysticks[k].is_persistent} IN
    [joysticks |-> Retain(mgr.joysticks, kept),
     consumers |-> stop_ff_thread(mgr, DOMAIN mgr.joysticks \ kept)]

\* VirtualJoystickManager::stop
ManagerStop(mgr, full_shutdown) ==
    LET kept == {k \in DOMAIN mgr.joysticks : ~full_shutdown /\ mgr.joysticks[k].is_persistent} IN
    [joysticks |-> Retain(mgr.joysticks, kept),
     consumers |-> stop_ff_thread(mgr, DOMAIN mgr.joysticks \ kept)]

ManagerGetControlState(js, joystick_name, control_name) ==
    IF joystick_name \in DOMAIN js
    THEN UnwrapOr(Get(js[joystick_name].control_states, control_name), 0)
    ELSE 0

\* variant that reads the summary whether or not force feedback is enabled
PlayedSummOfAnyJoystick(js, joystick_name) ==
    IF joystick_name \in DOMAIN js THEN js[joystick_name].ff_played_summ_norm ELSE 0

get_ff_constant_force_norm(js, joystick_name) ==
    IF joystick_name \in DOMAIN js
    THEN IF ~js[joystick_name].ff_enabled THEN 0 ELSE js[joystick_name].ff_played_summ_norm
    ELSE 0

\* VirtualJoystick::set_control_value; the result is <<status, joysticks>>.
\* The state is stored before the event is emitted.
JoystickSetControlValue(js, joystick_name, control_name, value, emit_ok) ==
    LET joystick == js[joystick_name] IN
    IF control_name \notin DOMAIN joystick.control_states THEN <<"error", js>>
    ELSE LET stored == IF joystick.control_info[control_name] = "Button"
                       THEN (IF value # 0 THEN 1 ELSE 0)
                       ELSE AsI32(value)
         IN <<IF emit_ok THEN "ok" ELSE "error",
              [js EXCEPT ![joystick_name].control_states[control_name] = stored]>>

\* VirtualJoystickManager::set_control_value: a missing joystick is no error
ManagerSetControlValue(js, joystick_name, control_name, value, emit_ok) ==
    IF joystick_name \in DOMAIN js
    THEN JoystickSetControlValue(js, joystick_name, control_name, value, emit_ok)
    ELSE <<"ok", js>>

\* the '_Persistent_Joysticks_Handling block of run_mapping_engine
RECURSIVE CreateOrDestroyJoysticks(_, _, _, _)
CreateOrDestroyJoysticks(mgr, rjs, keys, inst) ==
    IF keys = {} THEN mgr
    ELSE LET key == CHOOSE k \in keys : TRUE
             rj == rjs[key]
             is_persistent == \/ rj.persistent
                              \/ "all" \in persistent_joysticks_cli
                              \/ key \in persistent_joysticks_cli
             next == IF ~rj.enabled
                     THEN destroy_virtual_joystick_if_exists(mgr, key)
                     ELSE create_virtual_joystick(mgr, key, rj, is_persistent, inst)
         IN CreateOrDestroyJoysticks(next, rjs, keys \ {key}, inst)

PersistentJoysticksHandling(mgr, rjs, is_first_run, inst) ==
    CreateOrDestroyJoysticks(IF is_first_run THEN mgr ELSE ManagerStop(mgr, FALSE),
                             rjs, DOMAIN rjs, inst)

\* ------------------------------------------------------------------
\* MIDI matching (src/src/midi.rs)
\* ------------------------------------------------------------------
\* MidiManager::parse_midi_message: the message of a status byte of the
\* given kind and channel with the data bytes data1 and data2
ParsedMidi(device_name, message_type_code, channel, data1, data2) ==
    LET message == [device_name |-> device_name, message_type |-> "ProgramChange",
                    channel |-> channel, note |-> None, velocity |-> None,
                    control |-> None, value |-> None, pitch |-> None]
    IN CASE message_type_code = "NoteOff" ->
               [message EXCEPT !.message_type = "NoteOff",
                               !.note = Some(data1), !.velocity = Some(data2)]
         [] message_type_code = "NoteOn" ->
               [message EXCEPT !.message_type = IF data2 = 0 THEN "NoteOff" ELSE "NoteOn",
                               !.note = Some(data1), !.velocity = Some(data2)]
         [] message_type_code = "ControlChange" ->
               [message EXCEPT !.message_type = "ControlChange",
                               !.control = Some(data1), !.value = Some(data2)]
         [] message_type_code = "PitchWheel" ->
               [message EXCEPT !.message_type = "PitchWheel",
                               !.pitch = Some(data2 * 128 + data1 - 8192)]
         [] message_type_code = "Aftertouch" ->
               [message EXCEPT !.message_type = "Aftertouch", !.value = Some(data1)]
         [] OTHER -> [message EXCEPT !.value = Some(data1)]

\* a ControlChange message on channel 0
MidiMsg(device_name, control, value) ==
    ParsedMidi(device_name, "ControlChange", 0, control, value)

midi_type_matches(msg_type, spec_type) ==
    \/ msg_type = spec_type
    \/ msg_type \in {"NoteOn", "NoteOff"} /\ spec_type = "Note"

\* variant that lets every channel match
AnyChannelMatches(msg_channel, spec_channel) == TRUE

midi_channel_matches(msg_channel, spec_channel) ==
    spec_channel.kind = "Any" \/ msg_channel = spec_channel.n

\* str::to_lowercase for the spellings of `any`
ToLowercase(s) == IF s \in {"any", "Any", "ANY"} THEN "any" ELSE s

midi_number_matches(msg, spec_number) ==
    LET actual_number ==
            CASE msg.message_type \in {"NoteOn", "NoteOff"} -> msg.note
              [] msg.message_type = "ControlChange" -> msg.control
              [] msg.message_type = "ProgramChange" -> msg.value
              [] OTHER -> None
    IN IF IsSome(actual_number)
       THEN CASE spec_number.kind = "Single" -> actual_number[1] = spec_number.n
              [] spec_number.kind = "Multiple" -> actual_number[1] \in spec_number.numbers
              [] OTHER -> ToLowercase(spec_number.s) = "any"
       ELSE FALSE

check_midi_spec(msg, spec) ==
    /\ midi_type_matches(msg.message_type, spec.msg_type)
    /\ midi_channel_matches(msg.channel, spec.channel)
    /\ (IsSome(spec.number) => midi_number_matches(msg, spec.number[1]))

midi_message_matches_spec(msg, mapping) ==
    /\ mapping.source.kind = "Midi"
    /\ IsSome(mapping.source.midi_message)
    /\ check_midi_spec(msg, mapping.source.midi_message[1])

extract_midi_value(msg) ==
    CASE msg.message_type = "PitchWheel" -> UnwrapOr(msg.pitch, 0)
      [] msg.message_type = "NoteOn" -> UnwrapOr(msg.velocity, 0)
      [] msg.message_type = "NoteOff" -> 0
      [] OTHER -> UnwrapOr(msg.value, 0)

\* ------------------------------------------------------------------
\* MappingEngine::initialize (src/src/mapping.rs)
\* ------------------------------------------------------------------
\* variant of requires_idle_tick that holds of every mapping
EveryMappingRequiresIdleTick(mapping) == TRUE

requires_idle_tick(mapping) ==
    \E i \in DOMAIN mapping.transformation :
        mapping.transformation[i].kind \in {"Steering", "PedalSmoother"}

required_dst_device_keys(all_mappings) ==
    {all_mappings[i].destination.device_key :
        i \in {j \in DOMAIN all_mappings : all_mappings[j].enabled}}

required_src_device_keys(all_mappings) ==
    {all_mappings[i].source.device_key :
        i \in {j \in DOMAIN all_mappings : all_mappings[j].enabled}}

\* variant of opened_virtual_joysticks without the `enabled` test
EveryRequiredJoystick(cfg) == required_dst_device_keys(cfg.mappings)

opened_virtual_joysticks(cfg) ==
    {k \in required_dst_device_keys(cfg.mappings) : cfg.virtual_joysticks[k].enabled}

\* <<port, key>>: the ports matched by the required, enabled MIDI device keys
MatchedMidi(cfg) ==
    {pk \in MidiPorts \X (required_src_device_keys(cfg.mappings) \cap DOMAIN cfg.midi_devices) :
        /\ cfg.midi_devices[pk[2]].enabled
        /\ pk[1] \in cfg.midi_devices[pk[2]].matches}

\* MidiManager.connections after initialize: open_device succeeds for ok_ports
MidiConnectionsAfterOpen(cfg, ok_ports) == {pk[1] : pk \in MatchedMidi(cfg)} \cap ok_ports

\* variant of OpenedMidi that takes every open_device call to succeed
EveryMatchedPort(cfg, ok_ports) == MatchedMidi(cfg)

\* the matched ports whose open_device returned Ok
OpenedMidi(cfg, ok_ports) == {pk \in MatchedMidi(cfg) : pk[1] \in ok_ports}

\* the mouse device keys for which a reader task was spawned
OpenedMice(cfg) ==
    {k \in required_src_device_keys(cfg.mappings) \cap DOMAIN cfg.mouse_devices :
        /\ cfg.mouse_devices[k].enabled
        /\ cfg.mouse_devices[k].matches \cap MouseNames # {}}

runtime_device_name_to_config_device_key(cfg, ok_ports) ==
    LET Named(midi, mice) ==
            [n \in {pk[1] : pk \in midi} \cup mice |->
                IF n \in mice THEN n ELSE (CHOOSE pk \in midi : pk[1] = n)[2]]
    IN Named(OpenedMidi(cfg, ok_ports), OpenedMice(cfg))

RECURSIVE Repeat(_, _)
Repeat(x, n) == IF n = 0 THEN <<>> ELSE <<x>> \o Repeat(x, n - 1)

\* the final loop of initialize; mappings are referred to by their index
\* in the resolved mapping list
RECURSIVE RouteMappings(_, _, _, _, _)
RouteMappings(all_mappings, i, opened, name_to_key, acc) ==
    IF i > Len(all_mappings) THEN acc
    ELSE LET mapping == all_mappings[i]
             names == {n \in DOMAIN name_to_key : name_to_key[n] = mapping.source.device_key}
         IN IF ~mapping.enabled \/ mapping.destination.device_key \notin opened
            THEN RouteMappings(all_mappings, i + 1, opened, name_to_key, acc)
            ELSE RouteMappings(all_mappings, i + 1, opened, name_to_key,
                    [router |->
                        [n \in DOMAIN acc.router \cup names |->
                            IF n \in names
                            THEN UnwrapOr(Get(acc.router, n), <<>>) \o <<i>>
                            ELSE acc.router[n]],
                     idle_tick_mappings |->
                        acc.idle_tick_mappings \o
                            (IF requires_idle_tick(mapping)
                             THEN Repeat(i, Cardinality(names)) ELSE <<>>)])

initialize(cfg, ok_ports) ==
    RouteMappings(cfg.mappings, 1, opened_virtual_joysticks(cfg),
                  runtime_device_name_to_config_device_key(cfg, ok_ports),
                  [router |-> <<>>, idle_tick_mappings |-> <<>>])

\* ------------------------------------------------------------------
\* Transformation steps (src/src/mapping.rs).  `data` is
\* transform_step_data, `js` the joystick map and `t` Instant::now().
\* A step yields [value, range, data, panic].
\* ------------------------------------------------------------------
\* transform_step_data and, for the EMA filters, moving_average_step_data
NoStepData ==
    [f32_1 |-> <<>>, f32_2 |-> <<>>, time1 |-> <<>>, time2 |-> <<>>,
     moving_average_step_data |-> [f32_1 |-> <<>>, time1 |-> <<>>]]

StepOut(value, range, data) == [value |-> value, range |-> range, data |-> data, panic |-> FALSE]

\* e^(-q) for a whole number q
ExpNeg(q) ==
    CASE q <= 0 -> FixedOne
      [] q = 1 -> 23
      [] q = 2 -> 8
      [] q = 3 -> 3
      [] q = 4 -> 1
      [] OTHER -> 0

\* ValueFilter::ema and ValueFilter::lowpass (src/src/interpolation.rs); dt
\* is in whole seconds
ema(prev_val, current_input, dt, time_constant) ==
    prev_val + FMul(FixedOne - ExpNeg((dt * FixedOne) \div time_constant),
                    current_input - prev_val)

lowpass(prev_val, current_input, dt, time_constant) ==
    prev_val + FMul(IF time_constant > 0
                    THEN FixedOne - ExpNeg((dt * FixedOne) \div time_constant)
                    ELSE FixedOne,
                    current_input - prev_val)

\* variant of apply_ema that stores its output and the time of the call
EmaAdvancingState(runtime_state_id, moving_average, value, data, t) ==
    LET ma == data.moving_average_step_data
        out == ema(UnwrapOr(Get(ma.f32_1, runtime_state_id), value), value,
                   t - UnwrapOr(Get(ma.time1, runtime_state_id), t), moving_average.tau)
    IN [value |-> out,
        data |-> [data EXCEPT !.moving_average_step_data =
                      [f32_1 |-> Put(ma.f32_1, runtime_state_id, out),
                       time1 |-> Put(ma.time1, runtime_state_id, t)]]]

\* the entries of the step are inserted by its first call and read by the
\* later ones
apply_ema(runtime_state_id, moving_average, value, data, t) ==
    LET ma == data.moving_average_step_data
        prev_time == UnwrapOr(Get(ma.time1, runtime_state_id), t)
        prev_val == UnwrapOr(Get(ma.f32_1, runtime_state_id), value)
    IN [value |-> ema(prev_val, value, t - prev_time, moving_average.tau),
        data |-> [data EXCEPT !.moving_average_step_data =
                      [f32_1 |-> Put(ma.f32_1, runtime_state_id, prev_val),
                       time1 |-> Put(ma.time1, runtime_state_id, prev_time)]]]

apply_low_pass_transform(runtime_state_id, lowpass_p, current_input, data, t) ==
    LET prev_time == UnwrapOr(Get(data.time1, runtime_state_id), t)
        prev_val == UnwrapOr(Get(data.f32_1, runtime_state_id), current_input)
        out == lowpass(prev_val, current_input, t - prev_time,
                       UnwrapOr(lowpass_p.time_constant, FixedOne \div 10))
    IN [value |-> out,
        data |-> [data EXCEPT !.time1 = Put(@, runtime_state_id, t),
                              !.f32_1 = Put(@, runtime_state_id, out)]]

apply_invert_transform(invert, value, range) ==
    IF invert.is_relative THEN 0 - value ELSE clamp_and_invert(range, value)

\* InterpolationCurve::linear (src/src/interpolation.rs)
linear(x, slope, shift_x, shift_y) == FMul(slope, x - shift_x) + shift_y

apply_linear_transform(p, value, range) ==
    denormalize_from_unit(range,
        linear(normalize_to_unit(range, value), UnwrapOr(p.slope, FixedOne),
               UnwrapOr(p.shift_x, 0), UnwrapOr(p.shift_y, 0)))

\* variant of the Clamp step that never overrides the current range
ClampKeepingRange(p, value, current_range) ==
    [value |-> clamp(NumIntervalNew(AsF32(UnwrapOr(p.from, AsI32(current_range.from))),
                                    AsF32(UnwrapOr(p.to, AsI32(current_range.to)))),
                     value),
     range |-> current_range]

apply_clamp_step(p, value, current_range) ==
    LET clamp_range == NumIntervalNew(AsF32(UnwrapOr(p.from, AsI32(current_range.from))),
                                      AsF32(UnwrapOr(p.to, AsI32(current_range.to))))
    IN [value |-> clamp(clamp_range, value),
        range |-> IF p.override_range THEN clamp_range ELSE current_range]

\* variant of the integrator that starts at the lower end of its range
IntegrateFromLowerEnd(runtime_state_id, integrate, delta_value, data) ==
    LET integration_range == UnwrapOr(integrate.range, NumIntervalNew(0, AsF32(750)))
        out_val == clamp(integration_range,
                         UnwrapOr(Get(data.f32_1, runtime_state_id), integration_range.from)
                         + delta_value)
    IN StepOut(out_val, integration_range,
               [data EXCEPT !.f32_1 = Put(@, runtime_state_id, out_val)])

apply_integrate_transform(runtime_state_id, integrate, delta_value, data) ==
    LET Stored(integration_range, out_val) ==
            StepOut(out_val, integration_range,
                    [data EXCEPT !.f32_1 = Put(@, runtime_state_id, out_val)])
        Integrated(integration_range, deadzone) ==
            Stored(integration_range,
                   clamp(integration_range,
                         UnwrapOr(Get(data.f32_1, runtime_state_id),
                                  (integration_range.from + integration_range.to) \div 2)
                         + (IF Abs(delta_value) < FMul(deadzone, span_w(integration_range))
                            THEN 0 ELSE delta_value)))
    IN Integrated(UnwrapOr(integrate.range, NumIntervalNew(0, AsF32(750))),
                  Max(UnwrapOr(integrate.deadzone_norm, 0), 0))

\* 1 - 2^(-dt / halflife) for whole seconds
HalflifeGain(dt, halflife) == FixedOne - FixedOne \div (2 ^ (dt \div halflife))

\* variant that resolves every hold factor to 0
HoldFactorIgnored(hold_factor, js) == 0

\* ResolvedHoldFactor as a number of the unit interval (not clamped)
HoldFactorUnit(hold_factor, js) ==
    IF hold_factor = None THEN 0
    ELSE IF hold_factor[1].kind = "Value" THEN hold_factor[1].v
    ELSE map_from(UNIT_INTERVAL,
                  AsF32(ManagerGetControlState(js, hold_factor[1].device, hold_factor[1].control)),
                  CastF32(hold_factor[1].range))

\* variant of the steering delta that divides by counts_to_lock
DeltaPerCount(steering, value) ==
    (value * FixedOne) \div Max(steering.counts_to_lock, FixedOne)

\* delta = value / (counts_to_lock.max(1.0) / 2.0)
steering_delta(steering, value) ==
    (value * FixedOne) \div (Max(steering.counts_to_lock, FixedOne) \div 2)

\* user_input_power_curve and user_input_ema_filter are not configured
apply_steering_transform(mapping, runtime_state_id, steering, value, dst_range, data, js, t) ==
    LET dest == mapping.destination
        dt == IF runtime_state_id \in DOMAIN data.time1
              THEN t - data.time1[runtime_state_id] ELSE 0
        Out(centered) ==
            StepOut(map_from(dst_range, clamp(SYMM_UNIT_INTERVAL, centered), SYMM_UNIT_INTERVAL),
                    dst_range,
                    [data EXCEPT !.time1 = Put(@, runtime_state_id, t)])
        \* auto-centering
        Centered(delta, hold_factor_unit, ff_force_norm, with_ff) ==
            Out(IF /\ steering.auto_center_halflife > 0
                   /\ dt > 0
                   /\ ff_force_norm = 0
                   /\ delta = 0
                THEN with_ff + FMul(0 - with_ff,
                                    FMul(HalflifeGain(dt, steering.auto_center_halflife),
                                         clamp(UNIT_INTERVAL, FixedOne - hold_factor_unit)))
                ELSE with_ff)
        \* the force feedback moves the wheel
        Forced(delta, smoothed, hold_factor_unit, ff_force_norm) ==
            Centered(delta, hold_factor_unit, ff_force_norm,
                     IF Abs(ff_force_norm) > 0
                     THEN smoothed + FMul(FMul(ff_force_norm, FixedOne - hold_factor_unit),
                                          steering.force_feedback[1].constant_force_influence) * dt
                     ELSE smoothed)
        Scaled(scaled) ==
            IF steering.force_feedback[1].constant_force_invert THEN 0 - scaled ELSE scaled
        Moved(last_pos, delta) ==
            Forced(delta,
                   FMul(FixedOne - steering.smoothing_alpha, last_pos)
                   + FMul(steering.smoothing_alpha, last_pos + delta),
                   HoldFactorUnit(steering.hold_factor, js),
                   IF IsSome(steering.force_feedback) /\ steering.force_feedback[1].enabled
                   THEN Scaled(FMul(get_ff_constant_force_norm(js, dest.device_key),
                                    steering.force_feedback[1].constant_force_scale))
                   ELSE 0)
    IN Moved(map_from(SYMM_UNIT_INTERVAL,
                      AsF32(ManagerGetControlState(js, dest.device_key, dest.control_key)),
                      CastF32(dest.control.range)),
             steering_delta(steering, value))

\* variant of the gentling factor that is 0 where none is configured
FallFullyGentled(factor, js) == <<TRUE, 0>>

\* <<ok, factor>>: the unwrap of try_invert_value fails when the reading of
\* the referenced control lies outside the resolved range
FallGentlingFactor(factor, js) ==
    LET Inverted(range, inverted) ==
            IF inverted[1] THEN <<TRUE, normalize_to_unit(range, inverted[2])>>
            ELSE <<FALSE, 0>>
    IN IF factor = None THEN <<TRUE, FixedOne>>
       ELSE IF factor[1].kind = "Value" THEN <<TRUE, factor[1].v>>
       ELSE Inverted(factor[1].range,
                     try_invert_value(factor[1].range,
                                      ManagerGetControlState(js, factor[1].device,
                                                             factor[1].control)))

\* variant of the falling rate limit that ignores fall_delay
FallRateWithoutDelay(ps, fall_gentling_factor, dt_user_input) ==
    FMul(ps.fall_rate, fall_gentling_factor)

\* rate_limit of a falling output: zero until fall_delay has passed
FallRateLimit(ps, fall_gentling_factor, dt_user_input) ==
    IF IsSome(ps.fall_delay) /\ ~(ps.fall_delay[1] < dt_user_input)
    THEN 0
    ELSE FMul(ps.fall_rate, fall_gentling_factor)

apply_pedal_smoother_transform(runtime_state_id, ps, value, current_range, is_idle_tick, data, js, t) ==
    LET id == runtime_state_id
        initial_value == current_range.from
        dt == IF id \in DOMAIN data.time1 THEN t - data.time1[id] ELSE 0
        dt_user_input == IF id \in DOMAIN data.time2 THEN t - data.time2[id] ELSE 0
        moves == is_idle_tick /\ dt > 0
        Out(prev_out, data1, panics, final_out) ==
            IF panics
            THEN [value |-> value, range |-> current_range, data |-> data1, panic |-> TRUE]
            ELSE IF is_idle_tick
            THEN StepOut(final_out, current_range, [data1 EXCEPT !.f32_2 = Put(@, id, final_out)])
            ELSE StepOut(prev_out, current_range, [data1 EXCEPT !.time2 = Put(@, id, t)])
        Limited(prev_out, data1, delta_v, gentling, max_delta) ==
            Out(prev_out, data1,
                moves /\ ((delta_v <= 0 /\ ~gentling[1]) \/ max_delta < 0),
                clamp(current_range,
                      FMul(ps.smoothing_alpha,
                           IF moves
                           THEN prev_out + clamp([from |-> 0 - max_delta, to |-> max_delta],
                                                 delta_v)
                           ELSE prev_out)
                      + FMul(FixedOne - ps.smoothing_alpha, prev_out)))
        Gentled(prev_out, data1, delta_v, gentling) ==
            Limited(prev_out, data1, delta_v, gentling,
                    (IF delta_v > 0 THEN ps.rise_rate
                     ELSE FallRateLimit(ps, gentling[2], dt_user_input)) * dt)
        Targeted(prev_out, target) ==
            Gentled(prev_out,
                    [data EXCEPT !.f32_2 = Put(@, id, prev_out),
                                 !.f32_1 = Put(@, id, target),
                                 !.time1 = Put(@, id, t)],
                    target - prev_out,
                    FallGentlingFactor(ps.fall_gentling_factor, js))
    IN Targeted(UnwrapOr(Get(data.f32_2, id), initial_value),
                IF ~is_idle_tick THEN value
                ELSE UnwrapOr(Get(data.f32_1, id), initial_value))

apply_transformation_step(mapping, step, value, current_range, dst_range, is_idle_tick, data, js, t) ==
    LET Clamped(c) == StepOut(c.value, c.range, data)
        \* the filter runs for its state; on a suppressed idle tick the
        \* value is handed on as it came
        Filtered(f) ==
            StepOut(IF is_idle_tick /\ ~UnwrapOr(step.p.on_idle, TRUE) THEN value ELSE f.value,
                    current_range, f.data)
    IN
    CASE step.kind = "Invert" ->
            StepOut(apply_invert_transform(step.p, value, current_range), current_range, data)
      [] step.kind = "Integrate" ->
            IF is_idle_tick THEN StepOut(value, current_range, data)
            ELSE apply_integrate_transform(step.runtime_state_id, step.p, value, data)
      [] step.kind = "Clamp" ->
            Clamped(apply_clamp_step(step.p, value, current_range))
      [] step.kind = "Steering" ->
            apply_steering_transform(mapping, step.runtime_state_id, step.p, value,
                                     dst_range, data, js, t)
      [] step.kind = "PedalSmoother" ->
            apply_pedal_smoother_transform(step.runtime_state_id, step.p, value,
                                           current_range, is_idle_tick, data, js, t)
      [] step.kind = "Linear" ->
            IF is_idle_tick /\ ~UnwrapOr(step.p.on_idle, TRUE)
            THEN StepOut(value, current_range, data)
            ELSE StepOut(apply_linear_transform(step.p, value, current_range),
                         current_range, data)
      [] step.kind = "EmaFilter" ->
            Filtered(apply_ema(step.runtime_state_id, step.p, value, data, t))
      [] step.kind = "LowPass" ->
            Filtered(apply_low_pass_transform(step.runtime_state_id, step.p, value, data, t))

RECURSIVE RunSteps(_, _, _, _, _, _, _)
RunSteps(mapping, i, acc, dst_range, is_idle_tick, js, t) ==
    IF i > Len(mapping.transformation) \/ acc.panic THEN acc
    ELSE RunSteps(mapping, i + 1,
                  apply_transformation_step(mapping, mapping.transformation[i], acc.value,
                                            acc.range, dst_range, is_idle_tick, acc.data, js, t),
                  dst_range, is_idle_tick, js, t)

\* the value and the range handed to the first step
ClampOnEntry(src_range, value, data) ==
    StepOut(IF ~contains_inclusive(src_range, value) THEN clamp(src_range, value) ELSE value,
            src_range, data)

\* `value` is the raw reading as f32; the result is [value, data, panic]
apply_transformation(mapping, value, is_idle_tick, data, js, t) ==
    LET Remapped(dst_range, folded) ==
            [value |-> clamp(dst_range,
                             IF ~IntervalEq(folded.range, dst_range)
                             THEN map_from(dst_range, folded.value, folded.range)
                             ELSE folded.value),
             data |-> folded.data,
             panic |-> folded.panic]
        Folded(src_range, dst_range) ==
            Remapped(dst_range,
                     RunSteps(mapping, 1, ClampOnEntry(src_range, value, data),
                              dst_range, is_idle_tick, js, t))
    IN Folded(CastF32(UnwrapOr(mapping.source.range, NumIntervalNew(0, 127))),
              CastF32(mapping.destination.control.range))

\* ------------------------------------------------------------------
\* Handlers of the engine loop.  The engine state `st` is
\* [data, js, flags, runs, status]; `runs` records each completed pipeline
\* run: the mapping, the value returned and the value stored in the control.
\* ------------------------------------------------------------------
DestOf(mapping) == <<mapping.destination.device_key, mapping.destination.control_key>>

RunRecord(mapping, input_value, is_idle_tick, out, js) ==
    [m |-> mapping.name, idle |-> is_idle_tick, input |-> input_value, out |-> out,
     dst |-> DestOf(mapping),
     stored |-> IF mapping.destination.device_key \in DOMAIN js
                THEN Get(js[mapping.destination.device_key].control_states,
                         mapping.destination.control_key)
                ELSE None]

set_idle_tick_enabled_on_device_control_for_mapping(flags, mapping) ==
    [flags EXCEPT ![DestOf(mapping)] = requires_idle_tick(mapping)]

\* apply_transformation, set_control_value and, on an active input, the flag
RunMapping(st, mapping, input_value, is_idle_tick, emit_ok, t) ==
    LET Written(r, w) ==
            [data |-> r.data,
             js |-> w[2],
             flags |-> IF w[1] = "ok" /\ ~is_idle_tick
                       THEN set_idle_tick_enabled_on_device_control_for_mapping(st.flags, mapping)
                       ELSE st.flags,
             runs |-> Append(st.runs,
                             RunRecord(mapping, input_value, is_idle_tick, r.value, w[2])),
             status |-> w[1]]
        Transformed(r) ==
            IF r.panic THEN [st EXCEPT !.data = r.data, !.status = "panicked"]
            ELSE Written(r, ManagerSetControlValue(st.js, mapping.destination.device_key,
                                                   mapping.destination.control_key,
                                                   r.value, emit_ok))
    IN Transformed(apply_transformation(mapping, input_value, is_idle_tick, st.data, st.js, t))

execute_mapping_on_active_input(st, mapping, input_value, emit_ok, t) ==
    RunMapping(st, mapping, input_value, FALSE, emit_ok, t)

\* the loop over the matching mappings of the device; `?` leaves it early
RECURSIVE ExecuteAll(_, _, _, _, _, _)
ExecuteAll(st, idxs, all_mappings, input_value, emit_ok, t) ==
    IF idxs = <<>> \/ st.status # "ok" THEN st
    ELSE ExecuteAll(execute_mapping_on_active_input(st, all_mappings[Head(idxs)],
                                                    input_value, emit_ok, t),
                    Tail(idxs), all_mappings, input_value, emit_ok, t)

process_midi_message(st, msg, rt, all_mappings, emit_ok, t) ==
    IF msg.device_name \notin DOMAIN rt THEN st
    ELSE ExecuteAll(st,
                    SelectSeq(rt[msg.device_name],
                              LAMBDA i : midi_message_matches_spec(msg, all_mappings[i])),
                    all_mappings, AsF32(extract_midi_value(msg)), emit_ok, t)

process_mouse_event(st, event, rt, all_mappings, emit_ok, t) ==
    IF event.device_key \notin DOMAIN rt THEN st
    ELSE ExecuteAll(st,
                    SelectSeq(rt[event.device_key],
                              LAMBDA i : /\ all_mappings[i].source.kind = "Mouse"
                                         /\ all_mappings[i].source.type = event.control_type),
                    all_mappings, AsF32(event.value), emit_ok, t)

RECURSIVE process_idle_tick(_, _, _, _, _)
process_idle_tick(st, idxs, all_mappings, emit_ok, t) ==
    IF idxs = <<>> \/ st.status # "ok" THEN st
    ELSE LET mapping == all_mappings[Head(idxs)] IN
         process_idle_tick(IF ~st.flags[DestOf(mapping)] THEN st
                           ELSE RunMapping(st, mapping, 0, TRUE, emit_ok, t),
                           Tail(idxs), all_mappings, emit_ok, t)

\* ------------------------------------------------------------------
\* run_mapping_engine (src/src/driver.rs) and the engine loop
\* ------------------------------------------------------------------
MouseValues == {0 - 1, 3}
MidiValues == {0, 9}
MidiControls == {1, 2}
MouseControlTypes == {"RelX", "RelY"}

ControlsOf(cfg) ==
    UNION {{<<j, c>> : c \in DOMAIN cfg.virtual_joysticks[j].controls} :
           j \in DOMAIN cfg.virtual_joysticks}

\* history: the operation, whether its configuration loaded, its pipeline runs
Did(op, loaded, runs) == [op |-> op, loaded |-> loaded, runs |-> runs]

Manager == [joysticks |-> joysticks, consumers |-> ffConsumers]

\* no engine was constructed: enable_steering_indicator_window is the command
\* line flag, `threads` the live overlay threads per engine instance and
\* `cancelled` the engines whose overlay_thread_cancellation_token is cancelled
NoOverlay == [enable_steering_indicator_window |-> FALSE, threads |-> <<>>, cancelled |-> {}]

EngineState == [data |-> step_data, js |-> joysticks, flags |-> idle_flags,
                runs |-> <<>>, status |-> "ok"]

\* the state before run_mapping_engine loads the configuration
NotStarted ==
    /\ phase = "init"
    /\ config = NoConfig
    /\ loads = 0
    /\ CURRENT_STATE_ID = 0
    /\ joysticks = <<>>
    /\ ffConsumers = {}
    /\ mouseReaders = <<>>
    /\ midiConnections = {}
    /\ router = <<>>
    /\ idle_tick_mappings = <<>>
    /\ idle_flags = <<>>
    /\ step_data = NoStepData
    /\ now = 0
    /\ last = Did("none", TRUE, <<>>)

Init ==
    /\ NotStarted
    /\ midi_channel = <<>>
    /\ mouse_channel = <<>>
    /\ ticker_due = FALSE
    /\ overlay = NoOverlay

\* the process returned an error from run_mapping_engine
Fail(id, op, loaded) ==
    /\ phase' = "error"
    /\ CURRENT_STATE_ID' = id
    /\ last' = Did(op, loaded, <<>>)
    /\ UNCHANGED <<config, loads, joysticks, ffConsumers, mouseReaders,
                   midiConnections, router, idle_tick_mappings, idle_flags, step_data, now>>

\* one iteration of 'engine_restart after a successful load `l`:
\* joystick handling, a new engine and its initialize
EngineRestart(l, ok_ports, uinput_ok, op) ==
    LET is_first_run == loads = 0
        rjs == l.config.virtual_joysticks
        Restarted(before, mgr, engine) ==
            IF (\E k \in DOMAIN rjs : rjs[k].enabled /\ k \notin DOMAIN before.joysticks)
               /\ ~uinput_ok
            THEN Fail(l.id, op, TRUE)
            ELSE /\ phase' = "running"
                 /\ config' = l.config
                 /\ loads' = loads + 1
                 /\ CURRENT_STATE_ID' = l.id
                 /\ joysticks' = mgr.joysticks
                 /\ ffConsumers' = mgr.consumers
                 /\ mouseReaders' = [k \in OpenedMice(l.config) |-> TRUE]
                 /\ midiConnections' = MidiConnectionsAfterOpen(l.config, ok_ports)
                 /\ router' = engine.router
                 /\ idle_tick_mappings' = engine.idle_tick_mappings
                 /\ idle_flags' = [d \in ControlsOf(l.config) |-> FALSE]
                 /\ step_data' = NoStepData
                 /\ last' = Did(op, TRUE, <<>>)
                 /\ UNCHANGED now
    IN Restarted(IF is_first_run THEN Manager ELSE ManagerStop(Manager, FALSE),
                 PersistentJoysticksHandling(Manager, rjs, is_first_run, loads + 1),
                 initialize(l.config, ok_ports))

StartEngine(file, ok_ports, uinput_ok) ==
    LET Loaded(l) ==
            IF ~l.ok THEN Fail(l.id, "start", FALSE)
            ELSE EngineRestart(l, ok_ports, uinput_ok, "start")
    IN /\ phase = "init"
       /\ Loaded(load(file, CURRENT_STATE_ID))

\* variant of the reload that restarts the engine without validating the file
HotReloadWithoutCheck(file, ok_ports, uinput_ok) ==
    LET Loaded(l) ==
            IF ~l.ok THEN Fail(l.id, "hot_reload", FALSE)
            ELSE EngineRestart(l, ok_ports, uinput_ok, "hot_reload")
    IN /\ phase = "running"
       /\ loads < MaxLoads
       /\ Loaded(load(file, CURRENT_STATE_ID))

\* the configuration watcher fired and the file reads as `file`: it is loaded
\* by a fresh ConfigManager first, then engine.stop() and the next 'engine_restart
HotReload(file, ok_ports, uinput_ok) ==
    LET Checked(config_check_result) ==
            IF ~config_check_result.ok
            THEN /\ CURRENT_STATE_ID' = config_check_result.id
                 /\ last' = Did("hot_reload", FALSE, <<>>)
                 /\ UNCHANGED <<phase, config, loads, joysticks, ffConsumers, mouseReaders,
                                midiConnections, router, idle_tick_mappings, idle_flags,
                                step_data, now>>
            ELSE /\ loads < MaxLoads
                 /\ EngineRestart(load(file, config_check_result.id), ok_ports, uinput_ok,
                                  "hot_reload")
    IN /\ phase = "running"
       /\ Checked(load(file, CURRENT_STATE_ID))

\* ctrl_c: engine.stop() and joystick_manager.stop(true)
Shutdown ==
    LET Stopped(mgr) ==
            /\ joysticks' = mgr.joysticks
            /\ ffConsumers' = mgr.consumers
    IN /\ phase = "running"
       /\ Stopped(ManagerStop(Manager, TRUE))
       /\ phase' = "stopped"
       /\ mouseReaders' = <<>>
       /\ midiConnections' = {}
       /\ last' = Did("shutdown", TRUE, <<>>)
       /\ UNCHANGED <<config, loads, CURRENT_STATE_ID, router, idle_tick_mappings,
                      idle_flags, step_data, now>>

\* the outcome of one handler of the select! loop
Served(st, op) ==
    /\ phase' = IF st.status = "ok" THEN "running" ELSE st.status
    /\ joysticks' = st.js
    /\ idle_flags' = st.flags
    /\ step_data' = st.data
    /\ last' = Did(op, TRUE, st.runs)
    /\ UNCHANGED <<config, loads, CURRENT_STATE_ID, ffConsumers, mouseReaders,
                   midiConnections, router, idle_tick_mappings, now>>

\* the engine receives the message of a connected port
ProcessMidi(msg, emit_ok) ==
    /\ phase = "running"
    /\ msg.device_name \in midiConnections
    /\ Served(process_midi_message(EngineState, msg, router, config.mappings, emit_ok, now),
              "midi")

ProcessMidiMessage(port, control, value, emit_ok) ==
    ProcessMidi(MidiMsg(port, control, value), emit_ok)

ProcessMouseEvent(device_key, control_type, value, emit_ok) ==
    /\ phase = "running"
    /\ device_key \in DOMAIN mouseReaders
    /\ mouseReaders[device_key]
    /\ Served(process_mouse_event(EngineState,
                                  [device_key |-> device_key, control_type |-> control_type,
                                   value |-> value],
                                  router, config.mappings, emit_ok, now), "mouse")

ProcessIdleTick(emit_ok) ==
    /\ phase = "running"
    /\ Served(process_idle_tick(EngineState, idle_tick_mappings, config.mappings, emit_ok, now),
              "idle_tick")

\* the reader task of a mouse device ends on a read error
MouseReadError(device_key) ==
    /\ phase = "running"
    /\ device_key \in DOMAIN mouseReaders
    /\ mouseReaders[device_key]
    /\ mouseReaders' = [mouseReaders EXCEPT ![device_key] = FALSE]
    /\ last' = Did("read_error", TRUE, <<>>)
    /\ UNCHANGED <<phase, config, loads, CURRENT_STATE_ID, joysticks, ffConsumers,
                   midiConnections, router, idle_tick_mappings, idle_flags, step_data, now>>

AdvanceTime ==
    /\ phase = "running"
    /\ now < MaxNow
    /\ now' = now + 1
    /\ last' = Did("none", TRUE, <<>>)
    /\ UNCHANGED <<phase, config, loads, CURRENT_STATE_ID, joysticks, ffConsumers,
                   mouseReaders, midiConnections, router, idle_tick_mappings, idle_flags,
                   step_data>>

\* The channels and the overlay are not followed here: a message is served as
\* it arrives and the steering indicator window is not enabled.
Next ==
    \/ \E file \in ConfigFiles, ok_ports \in SUBSET MidiPorts, uinput_ok \in BOOLEAN :
          StartEngine(file, ok_ports, uinput_ok) /\ UNCHANGED loop_vars
    \/ \E file \in ConfigFiles, ok_ports \in SUBSET MidiPorts, uinput_ok \in BOOLEAN :
          HotReload(file, ok_ports, uinput_ok) /\ UNCHANGED loop_vars
    \/ Shutdown /\ UNCHANGED loop_vars
    \/ \E port \in MidiPorts, control \in MidiControls, value \in MidiValues, emit_ok \in BOOLEAN :
          ProcessMidiMessage(port, control, value, emit_ok) /\ UNCHANGED loop_vars
    \/ \E control_type \in MouseControlTypes, value \in MouseValues, emit_ok \in BOOLEAN :
          ProcessMouseEvent("mouse1", control_type, value, emit_ok) /\ UNCHANGED loop_vars
    \/ \E emit_ok \in BOOLEAN : ProcessIdleTick(emit_ok) /\ UNCHANGED loop_vars
    \/ MouseReadError("mouse1") /\ UNCHANGED loop_vars
    \/ AdvanceTime /\ UNCHANGED loop_vars

Spec == Init /\ [][Next]_vars

\* ------------------------------------------------------------------
\* The select! loop of MappingEngine::run with its channels and ticker,
\* the overlay thread, and MappingEngine::stop (src/src/mapping.rs)
\* ------------------------------------------------------------------
\* variant of select that polls the branches in the order they are written
SelectBiased(ready) ==
    IF "midi" \in ready THEN {"midi"} ELSE IF "mouse" \in ready THEN {"mouse"} ELSE ready

\* select! of run(): the branches that may complete, given the ready ones
\* (the branch polled first is picked at random)
select(ready) == ready

ReadyBranches ==
    (IF midi_channel # <<>> THEN {"midi"} ELSE {})
    \cup (IF mouse_channel # <<>> THEN {"mouse"} ELSE {})
    \cup (IF ticker_due THEN {"tick"} ELSE {})

ThreadsOf(ov, inst) == UnwrapOr(Get(ov.threads, inst), 0)

\* the head of run(): spawn_blocking of the overlay when the window is enabled
SpawnOverlay(ov, inst) ==
    IF ov.enable_steering_indicator_window
    THEN [ov EXCEPT !.threads = Put(@, inst, ThreadsOf(ov, inst) + 1)]
    ELSE ov

\* the head of stop(): the token is cancelled and the handle aborted; the
\* abort removes the task only if it did not start to run (`aborted`)
StopOverlay(ov, inst, aborted) ==
    IF ThreadsOf(ov, inst) = 0 THEN ov
    ELSE [ov EXCEPT !.cancelled = @ \cup {inst},
                    !.threads[inst] = IF aborted THEN @ - 1 ELSE @]

LoopFiles == {MkConfig(None, TRUE, SymmRange, SteeringMappings), BrokenConfig}
LoopMidiMessages == {MidiMsg("portA", 1, 9)}
LoopMouseEvents ==
    {[device_key |-> "mouse1", control_type |-> c, value |-> 0 - 1] : c \in MouseControlTypes}

LoopInit ==
    /\ NotStarted
    /\ midi_channel = <<>>
    /\ mouse_channel = <<>>
    /\ ticker_due = FALSE
    /\ overlay \in {[NoOverlay EXCEPT !.enable_steering_indicator_window = b] : b \in BOOLEAN}

\* run(): the overlay is spawned and the first tick of a new ticker is due
RunEntered(ov, inst) ==
    /\ ticker_due' = TRUE
    /\ overlay' = SpawnOverlay(ov, inst)

LoopStartEngine(file) ==
    /\ StartEngine(file, MidiPorts, TRUE)
    /\ UNCHANGED <<midi_channel, mouse_channel>>
    /\ IF phase' = "running" THEN RunEntered(overlay, loads')
       ELSE UNCHANGED <<ticker_due, overlay>>

\* a refused reload enters run() again on the same engine; a validated one
\* stops the engine and runs a new one with new managers
LoopHotReload(file, aborted) ==
    /\ ThreadsOf(overlay, loads) < MaxOverlayThreads
    /\ HotReload(file, MidiPorts, TRUE)
    /\ IF loads' = loads
       THEN /\ UNCHANGED <<midi_channel, mouse_channel>>
            /\ RunEntered(overlay, loads)
       ELSE /\ midi_channel' = <<>>
            /\ mouse_channel' = <<>>
            /\ RunEntered(StopOverlay(overlay, loads, aborted), loads')

LoopShutdown(aborted) ==
    /\ Shutdown
    /\ midi_channel' = <<>>
    /\ mouse_channel' = <<>>
    /\ ticker_due' = FALSE
    /\ overlay' = StopOverlay(overlay, loads, aborted)

\* the callback of an opened MIDI connection sends a message
MidiArrives(msg) ==
    /\ phase = "running"
    /\ msg.device_name \in midiConnections
    /\ Len(midi_channel) < MaxQueue
    /\ midi_channel' = Append(midi_channel, msg)
    /\ last' = Did("none", TRUE, <<>>)
    /\ UNCHANGED <<phase, config, loads, CURRENT_STATE_ID, joysticks, ffConsumers,
                   mouseReaders, midiConnections, router, idle_tick_mappings, idle_flags,
                   step_data, now, mouse_channel, ticker_due, overlay>>

\* the reader task of an opened mouse device sends an event
MouseArrives(event) ==
    /\ phase = "running"
    /\ event.device_key \in DOMAIN mouseReaders
    /\ mouseReaders[event.device_key]
    /\ Len(mouse_channel) < MaxQueue
    /\ mouse_channel' = Append(mouse_channel, event)
    /\ last' = Did("none", TRUE, <<>>)
    /\ UNCHANGED <<phase, config, loads, CURRENT_STATE_ID, joysticks, ffConsumers,
                   mouseReaders, midiConnections, router, idle_tick_mappings, idle_flags,
                   step_data, now, midi_channel, ticker_due, overlay>>

\* a period of the ticker elapsed (missed ticks are skipped)
TickerElapses ==
    /\ phase = "running"
    /\ ~ticker_due
    /\ ticker_due' = TRUE
    /\ last' = Did("none", TRUE, <<>>)
    /\ UNCHANGED <<phase, config, loads, CURRENT_STATE_ID, joysticks, ffConsumers,
                   mouseReaders, midiConnections, router, idle_tick_mappings, idle_flags,
                   step_data, now, midi_channel, mouse_channel, overlay>>

\* one iteration of `while self.running { select! {...} }`
ServeMidi(emit_ok) ==
    /\ "midi" \in select(ReadyBranches)
    /\ ProcessMidi(Head(midi_channel), emit_ok)
    /\ midi_channel' = Tail(midi_channel)
    /\ UNCHANGED <<mouse_channel, ticker_due, overlay>>

ServeMouse(emit_ok) ==
    /\ "mouse" \in select(ReadyBranches)
    /\ ProcessMouseEvent(Head(mouse_channel).device_key, Head(mouse_channel).control_type,
                         Head(mouse_channel).value, emit_ok)
    /\ mouse_channel' = Tail(mouse_channel)
    /\ UNCHANGED <<midi_channel, ticker_due, overlay>>

ServeTick(emit_ok) ==
    /\ "tick" \in select(ReadyBranches)
    /\ ProcessIdleTick(emit_ok)
    /\ ticker_due' = FALSE
    /\ UNCHANGED <<midi_channel, mouse_channel, overlay>>

\* update() of a cancelled overlay window closes it and the thread ends
OverlayExits(inst) ==
    /\ inst \in overlay.cancelled
    /\ ThreadsOf(overlay, inst) > 0
    /\ overlay' = [overlay EXCEPT !.threads[inst] = @ - 1]
    /\ UNCHANGED <<phase, config, loads, CURRENT_STATE_ID, joysticks, ffConsumers,
                   mouseReaders, midiConnections, router, idle_tick_mappings, idle_flags,
                   step_data, now, last, midi_channel, mouse_channel, ticker_due>>

LoopNext ==
    \/ \E file \in LoopFiles : LoopStartEngine(file)
    \/ \E file \in LoopFiles, aborted \in BOOLEAN : LoopHotReload(file, aborted)
    \/ \E aborted \in BOOLEAN : LoopShutdown(aborted)
    \/ \E msg \in LoopMidiMessages : MidiArrives(msg)
    \/ \E event \in LoopMouseEvents : MouseArrives(event)
    \/ TickerElapses
    \/ \E emit_ok \in BOOLEAN : ServeMidi(emit_ok)
    \/ \E emit_ok \in BOOLEAN : ServeMouse(emit_ok)
    \/ \E emit_ok \in BOOLEAN : ServeTick(emit_ok)
    \/ \E inst \in 1..MaxLoads : OverlayExits(inst)
    \/ AdvanceTime /\ UNCHANGED loop_vars

\* the steps of ServeTick seen on the ticker alone: the tick branch may
\* complete and the due tick is taken
TickBranchCompletes ==
    /\ phase = "running"
    /\ "tick" \in select(ReadyBranches)
    /\ ticker_due' = FALSE

\* the branch of select! polled first is drawn at random on every iteration,
\* so a branch that stays able to complete is not passed over for ever
LoopSpec == LoopInit /\ [][LoopNext]_vars /\ WF_ticker_due(TickBranchCompletes)

\* ------------------------------------------------------------------
\* Single pipelines: one engine run on a configuration with one mapping,
\* followed over several seconds, with the force-feedback consumer of the
\* joystick (src/src/joystick.rs)
\* ------------------------------------------------------------------
PipeSteering(hold_factor, force_feedback) ==
    Step("Steering",
         [counts_to_lock |-> AsF32(4), smoothing_alpha |-> FixedOne, auto_center_halflife |-> 1,
          hold_factor |-> hold_factor, force_feedback |-> force_feedback])

PipePedal ==
    Step("PedalSmoother",
         [rise_rate |-> AsF32(4), fall_rate |-> AsF32(1), smoothing_alpha |-> FixedOne,
          fall_delay |-> Some(1), fall_gentling_factor |-> None])

\* js1/AbsX has the range absx_range, js2/AbsY the initial value absy_initial
PipeConfig(absx_range, absy_initial, mappings) ==
    [MkConfig(None, FALSE, absx_range, mappings)
        EXCEPT !.virtual_joysticks["js2"].controls["AbsY"].initial_value = absy_initial]

\* a file whose controls midi1/cc2, mouse1/RelX, js1/AbsX and js2/AbsY have
\* the given ranges
ScenarioConfig(cc2_range, relx_range, absx_range, absy_range, mappings) ==
    [MkConfig(None, FALSE, absx_range, mappings)
        EXCEPT !.midi_devices["midi1"].controls["cc2"].range = Some(cc2_range),
               !.mouse_devices["mouse1"].controls["RelX"].range = relx_range,
               !.virtual_joysticks["js2"].controls["AbsY"].range = absy_range]

MidiRange == NumIntervalNew(0, 127)
AxisRange == NumIntervalNew(0 - 32768, 32767)

\* one mapping each: a held wheel with force feedback, a free wheel without
\* it, a pedal, a pedal behind a curve, and three pipelines of stateless steps
PipeFiles ==
    { PipeConfig(NumIntervalNew(0, 5), 0,
                 <<Mapping("HeldWheel", TRUE, "mouse1", "RelX", "js1", "AbsX",
                           <<PipeSteering(Some(HoldValue(FixedOne)), Some(FFConfig))>>)>>),
      PipeConfig(PosRange, 0,
                 <<Mapping("FreeWheel", TRUE, "mouse1", "RelX", "js1", "AbsX",
                           <<PipeSteering(None, None)>>)>>),
      PipeConfig(SymmRange, 4,
                 <<Mapping("Pedal", TRUE, "midi1", "cc2", "js2", "AbsY", <<PipePedal>>)>>),
      PipeConfig(SymmRange, 4,
                 <<Mapping("ScaledPedal", TRUE, "midi1", "cc2", "js2", "AbsY",
                           <<LinearStep, PipePedal>>)>>),
      PipeConfig(SymmRange, 0,
                 <<Mapping("Scaled", TRUE, "midi1", "cc2", "js2", "AbsY",
                           <<LinearStep, InvertStep>>)>>),
      PipeConfig(SymmRange, 0,
                 <<Mapping("Negated", TRUE, "midi1", "cc2", "js2", "AbsY",
                           <<Step("Invert", [is_relative |-> TRUE]), ClampKeepStep>>)>>),
      PipeConfig(SymmRange, 0, <<M2>>),
      PipeConfig(NumIntervalNew(0, 16), 0,
                 <<Mapping("PushedWheel", TRUE, "mouse1", "RelX", "js1", "AbsX",
                           <<Step("Steering",
                                  [counts_to_lock |-> AsF32(4), smoothing_alpha |-> FixedOne,
                                   auto_center_halflife |-> 0,
                                   hold_factor |-> Some(HoldValue(FixedOne \div 2)),
                                   force_feedback |->
                                       Some([enabled |-> TRUE,
                                             constant_force_scale |-> 2 * FixedOne,
                                             constant_force_invert |-> TRUE,
                                             constant_force_influence |-> FixedOne \div 2])])>>)>>),
      ScenarioConfig(MidiRange, NumIntervalNew(0 - 10, 10), NumIntervalNew(0, 750),
                     NumIntervalNew(0, 8),
                     <<Mapping("Integrator", TRUE, "mouse1", "RelX", "js1", "AbsX",
                               <<Step("Integrate", [range |-> None, deadzone_norm |-> None])>>)>>),
      ScenarioConfig(MidiRange, SymmRange, NumIntervalNew(0, 1000), NumIntervalNew(0, 8),
                     <<Mapping("Clamped", TRUE, "midi1", "cc2", "js1", "AbsX",
                               <<Step("Clamp", [from |-> Some(50), to |-> Some(100),
                                                override_range |-> TRUE])>>)>>),
      PipeConfig(PosRange, 0,
                 <<Mapping("Averaged", TRUE, "midi1", "cc2", "js1", "AbsX",
                           <<Step("EmaFilter", [tau |-> FixedOne, on_idle |-> Some(FALSE)])>>)>>),
      PipeConfig(PosRange, 0,
                 <<Mapping("Filtered", TRUE, "midi1", "cc2", "js1", "AbsX",
                           <<Step("LowPass", [time_constant |-> Some(FixedOne),
                                              on_idle |-> Some(FALSE)])>>)>>),
      PipeConfig(SymmRange, 0,
                 <<Mapping("UnpoweredWheel", TRUE, "mouse1", "RelX", "js2", "AbsY",
                           <<PipeSteering(None, Some(FFConfig))>>)>>),
      ScenarioConfig(MidiRange, SymmRange, AxisRange, NumIntervalNew(0, 8),
                     <<Mapping("ModWheel", TRUE, "midi1", "cc2", "js1", "AbsX",
                               <<Step("Steering",
                                      [counts_to_lock |-> AsF32(60), smoothing_alpha |-> FixedOne,
                                       auto_center_halflife |-> 0,
                                       hold_factor |-> Some(HoldValue(0)),
                                       force_feedback |-> None])>>)>>),
      ScenarioConfig(NumIntervalNew(1, 5), SymmRange, PosRange, NumIntervalNew(0, 8),
                     <<Mapping("GrippedWheel", TRUE, "mouse1", "RelX", "js1", "AbsX",
                               <<PipeSteering(Some(HoldReference("midi1", "cc2")), None)>>)>>),
      PipeConfig(SymmRange, 0,
                 <<Mapping("IntegratedPedal", TRUE, "mouse1", "RelX", "js2", "AbsY",
                           <<Step("Integrate", [range |-> Some(NumIntervalNew(0, AsF32(8))),
                                                deadzone_norm |-> None]),
                             PipePedal>>)>>),
      ScenarioConfig(MidiRange, SymmRange, PosRange, NumIntervalNew(0, 8),
                     <<Mapping("SqueezedWheel", TRUE, "mouse1", "RelX", "js2", "AbsY",
                               <<PipeSteering(Some(HoldReference("js2", "AbsY")), None)>>)>>) }

\* the file whose control midi1/cc2 is bound to the MIDI message `spec`
KeyedConfig(spec) ==
    [PipeConfig(PosRange, 0, <<Mapping("Keyed", TRUE, "midi1", "cc2", "js1", "AbsX", <<>>)>>)
        EXCEPT !.midi_devices["midi1"].controls["cc2"].midi_message = Some(spec)]

PipeMidiSpecs ==
    { MidiSpec("ControlChange", ChannelAny, Some(NumSingle(2))),
      MidiSpec("ControlChange", ChannelNumber(1), Some(NumSpecial("Any"))),
      MidiSpec("Note", ChannelNumber(1), Some(NumMultiple({60, 62}))),
      MidiSpec("NoteOn", ChannelAny, Some(NumSpecial("lowest"))),
      MidiSpec("ProgramChange", ChannelNumber(0), Some(NumSingle(2))),
      MidiSpec("PitchWheel", ChannelAny, None) }

KeyedFiles == {KeyedConfig(spec) : spec \in PipeMidiSpecs}

\* the status bytes, channels and first data bytes of the messages
PipeMidiKinds == {"NoteOn", "NoteOff", "ControlChange", "PitchWheel", "ProgramChange"}
PipeMidiChannels == {0, 1}
PipeMidiNumbers == {2, 60}

\* the messages of port portA; the second data byte is 3
PipeMidiMessages ==
    {ParsedMidi("portA", kind, channel, data1, 3) :
        kind \in PipeMidiKinds, channel \in PipeMidiChannels, data1 \in PipeMidiNumbers}

\* ff_played_summ_norm values stored by play(): level / half span
FfLevels == {0, FixedOne \div 2}
PipeMidiValues == {0, 1, 9, 64, 200}
PipeMouseValues == MouseValues \cup {10, 0 - 5}

PipeStartEngine(file) == StartEngine(file, MidiPorts, TRUE) /\ UNCHANGED loop_vars

PipeMidiMessage(value) ==
    ProcessMidiMessage("portA", 2, value, TRUE) /\ UNCHANGED loop_vars

PipeMidiParsed(msg) == ProcessMidi(msg, TRUE) /\ UNCHANGED loop_vars

PipeMouseEvent(control_type, value) ==
    ProcessMouseEvent("mouse1", control_type, value, TRUE) /\ UNCHANGED loop_vars

PipeIdleTick == ProcessIdleTick(TRUE) /\ UNCHANGED loop_vars

\* ff_consumer_thread: play() stores the level of the played constant force
FfConsumerPlays(key, summ) ==
    /\ phase = "running"
    /\ key \in DOMAIN joysticks
    /\ <<key, joysticks[key].inst>> \in ffConsumers
    /\ joysticks' = [joysticks EXCEPT ![key].ff_played_summ_norm = summ]
    /\ last' = Did("none", TRUE, <<>>)
    /\ UNCHANGED <<phase, config, loads, CURRENT_STATE_ID, ffConsumers, mouseReaders,
                   midiConnections, router, idle_tick_mappings, idle_flags, step_data, now,
                   midi_channel, mouse_channel, ticker_due, overlay>>

PipeAdvanceTime ==
    /\ phase = "running"
    /\ now < MaxPipeNow
    /\ now' = now + 1
    /\ last' = Did("none", TRUE, <<>>)
    /\ UNCHANGED <<phase, config, loads, CURRENT_STATE_ID, joysticks, ffConsumers,
                   mouseReaders, midiConnections, router, idle_tick_mappings, idle_flags,
                   step_data, midi_channel, mouse_channel, ticker_due, overlay>>

PipeNext ==
    \/ \E file \in PipeFiles \cup KeyedFiles : PipeStartEngine(file)
    \/ \E value \in PipeMidiValues : PipeMidiMessage(value)
    \/ \E msg \in PipeMidiMessages : PipeMidiParsed(msg)
    \/ \E control_type \in MouseControlTypes, value \in PipeMouseValues :
          PipeMouseEvent(control_type, value)
    \/ PipeIdleTick
    \/ \E summ \in FfLevels : FfConsumerPlays("js1", summ)
    \/ PipeAdvanceTime

PipeSpec == Init /\ [][PipeNext]_vars

\* ------------------------------------------------------------------
\* The force feedback consumer of a joystick and the kernel side of its
\* uinput device (FfSpec)
\* ------------------------------------------------------------------
MaxFfEvents == 2

Range(f) == {f[x] : x \in DOMAIN f}

VJ_FF_MAX_EFFECTS == 1

\* kinds and levels of the effects an application uploads
FfEffectKinds == {"Constant", "Periodic"}
FfEffectLevels == {8192, 16384}
\* values of the EV_FF events an application writes: 0 stops the effect, a
\* positive value plays it that many times
FfPlayValues == {0, 1, 2}

FF_STATUS_STOPPED == 0
FF_STATUS_PLAYING == 1

\* i32 as u16
AsU16(i) == i % 65536

FfEvent(type, code, value, kind, level) ==
    [type |-> type, code |-> code, value |-> value, kind |-> kind, level |-> level]

\* NumInterval::new(FfLevelT::MIN, FfLevelT::MAX).span_w() as f32 / 2.0
ff_value_halfspan_f32 == AsF32(span_w(NumIntervalNew(0 - 32768, 32767))) \div 2

\* variant of play() that sums the level of every uploaded effect
PlayUploaded(ws) ==
    IF 0 \in DOMAIN ws.uploaded_effects
    THEN (AsF32(ws.uploaded_effects[0].level) * FixedOne) \div ff_value_halfspan_f32
    ELSE 0

\* play(): the value stored into ff_played_summ_norm
play(ws) ==
    IF /\ IsSome(ws.played_effect)
       /\ ws.played_effect[1][1] \in DOMAIN ws.uploaded_effects
       /\ ws.uploaded_effects[ws.played_effect[1][1]].kind = "ConstantForce"
    THEN (AsF32(ws.uploaded_effects[ws.played_effect[1][1]].level) * FixedOne)
             \div ff_value_halfspan_f32
    ELSE 0

\* variant of the upload arm that stores an effect of any kind
UploadOfAnyKind(ws, event) ==
    [ws |-> [ws EXCEPT !.uploaded_effects =
                 Put(@, 0, [kind |-> event.kind, level |-> event.level])],
     retval |-> 0]

\* the UI_FF_UPLOAD arm: <<working state, retval of the request>>
process_ff_upload(ws, event) ==
    IF event.kind = "Constant"
    THEN [ws |-> [ws EXCEPT !.uploaded_effects =
                      Put(@, 0, [kind |-> "ConstantForce", level |-> event.level])],
          retval |-> 0]
    ELSE [ws |-> ws, retval |-> 0 - 1]

\* the UI_FF_ERASE arm
process_ff_erase(ws, event) ==
    [ws EXCEPT !.uploaded_effects = Retain(@, DOMAIN @ \ {event.code})]

\* the ForceFeedback arm: the value of the event is matched as a status code
process_ff_event(ws, event) ==
    IF AsU16(event.value) = FF_STATUS_PLAYING
    THEN [ws EXCEPT !.played_effect = Some(<<event.code, event.value>>)]
    ELSE IF AsU16(event.value) = FF_STATUS_STOPPED
    THEN [ws EXCEPT !.played_effect = None]
    ELSE ws

FfThreadRuns(key) ==
    /\ key \in DOMAIN joysticks
    /\ <<key, joysticks[key].inst>> \in ffConsumers

FfStep(js) ==
    /\ joysticks' = js
    /\ last' = Did("none", TRUE, <<>>)
    /\ UNCHANGED <<phase, config, loads, CURRENT_STATE_ID, ffConsumers, mouseReaders,
                   midiConnections, router, idle_tick_mappings, idle_flags, step_data, now,
                   midi_channel, mouse_channel, ticker_due, overlay>>

\* the loop of ff_consumer_thread up to play()
FfThreadPlays(key) ==
    /\ FfThreadRuns(key)
    /\ joysticks[key].ff_thread.at = "play"
    /\ FfStep([joysticks EXCEPT
                  ![key].ff_played_summ_norm = play(joysticks[key].ff_thread.ff_working_state),
                  ![key].ff_thread.at = "fetch"])

\* fetch_events(): the queued events are collected, or the thread backs off
FfThreadFetches(key) ==
    /\ FfThreadRuns(key)
    /\ joysticks[key].ff_thread.at = "fetch"
    /\ IF joysticks[key].platform_device_api.events # <<>>
       THEN FfStep([joysticks EXCEPT
                       ![key].ff_thread.collected_events =
                           joysticks[key].platform_device_api.events,
                       ![key].platform_device_api.events = <<>>,
                       ![key].ff_thread.sleep_millis = 0,
                       ![key].ff_thread.at = "process"])
       ELSE FfStep([joysticks EXCEPT
                       ![key].ff_thread.sleep_millis = IF @ < 10 THEN @ + 1 ELSE @,
                       ![key].ff_thread.at = "play"])

\* one turn of `for event in collected_events`; the kernel stores an
\* uploaded effect that was answered with retval 0
FfThreadProcesses(key) ==
    LET thread == joysticks[key].ff_thread
        event == Head(thread.collected_events)
        ws == thread.ff_working_state
        Processed(ws1, device) ==
            FfStep([joysticks EXCEPT
                       ![key].ff_thread.ff_working_state = ws1,
                       ![key].ff_thread.collected_events = Tail(@),
                       ![key].ff_thread.at = IF Tail(thread.collected_events) = <<>>
                                             THEN "play" ELSE "process",
                       ![key].platform_device_api = device])
        Uploaded(answer) ==
            Processed(answer.ws,
                      [joysticks[key].platform_device_api EXCEPT
                          !.retval = Some(answer.retval),
                          !.effects = IF answer.retval = 0 THEN @ \cup {0} ELSE @])
    IN /\ FfThreadRuns(key)
       /\ thread.at = "process"
       /\ IF event.type = "EV_FF"
          THEN Processed(process_ff_event(ws, event), joysticks[key].platform_device_api)
          ELSE IF event.type = "UI_FF_UPLOAD"
          THEN Uploaded(process_ff_upload(ws, event))
          ELSE Processed(process_ff_erase(ws, event), joysticks[key].platform_device_api)

\* an upload or erase request of the kernel waits for its answer
RequestPending(key) ==
    \E e \in Range(joysticks[key].platform_device_api.events)
             \cup Range(joysticks[key].ff_thread.collected_events) :
        e.type # "EV_FF"

FfQueueHasRoom(key, n) ==
    /\ FfThreadRuns(key)
    /\ Len(joysticks[key].platform_device_api.events)
           + Len(joysticks[key].ff_thread.collected_events) + n <= MaxFfEvents

\* an application uploads an effect (EVIOCSFF)
KernelUploadRequest(key, kind, level) ==
    /\ FfQueueHasRoom(key, 1)
    /\ ~RequestPending(key)
    /\ FfStep([joysticks EXCEPT ![key].platform_device_api.events =
                   Append(@, FfEvent("UI_FF_UPLOAD", 0, 0, kind, level))])

\* an application erases its effect (EVIOCRMFF): the kernel stops the
\* effect, forgets it and then asks the device to erase it
KernelEraseRequest(key) ==
    /\ FfQueueHasRoom(key, 2)
    /\ ~RequestPending(key)
    /\ 0 \in joysticks[key].platform_device_api.effects
    /\ FfStep([joysticks EXCEPT
                  ![key].platform_device_api.effects = {},
                  ![key].platform_device_api.events =
                      @ \o <<FfEvent("EV_FF", 0, 0, "", 0), FfEvent("UI_FF_ERASE", 0, 0, "", 0)>>])

\* an application writes an EV_FF event for an effect it uploaded
KernelPlayback(key, value) ==
    /\ FfQueueHasRoom(key, 1)
    /\ 0 \in joysticks[key].platform_device_api.effects
    /\ FfStep([joysticks EXCEPT ![key].platform_device_api.events =
                   Append(@, FfEvent("EV_FF", 0, value, "", 0))])

\* the engine starts on the file of the wheel that force feedback pushes
FfStartEngine ==
    PipeStartEngine(CHOOSE file \in PipeFiles : file.mappings[1].name = "PushedWheel")

FfNext ==
    \/ FfStartEngine
    \/ \E key \in {"js1", "js2"} :
          \/ FfThreadPlays(key)
          \/ FfThreadFetches(key)
          \/ FfThreadProcesses(key)
          \/ \E kind \in FfEffectKinds, level \in FfEffectLevels :
                KernelUploadRequest(key, kind, level)
          \/ KernelEraseRequest(key)
          \/ \E value \in FfPlayValues : KernelPlayback(key, value)

FfSpec == Init /\ [][FfNext]_vars

\* ------------------------------------------------------------------
\* The interval operations and the pipeline without steps, applied to
\* intervals built from drawn endpoints (src/src/common.rs)
\* ------------------------------------------------------------------
MaxEnd == 2

Ends == (0 - MaxEnd)..MaxEnd

\* Ordering of two numbers (PartialOrd::partial_cmp of the primitive)
Cmp(a, b) == IF a < b THEN "Less" ELSE IF a > b THEN "Greater" ELSE "Equal"

\* variant of partial_cmp that compares the lower endpoints first
FromOrderFirst(r1, r2) ==
    IF Cmp(r1.from, r2.from) = "Equal" THEN Cmp(span_w(r1), span_w(r2))
    ELSE Cmp(r1.from, r2.from)

\* PartialOrd for NumInterval: the spans, then `from` when the spans are equal
partial_cmp(r1, r2) ==
    IF Cmp(span_w(r1), span_w(r2)) = "Equal" THEN Cmp(r1.from, r2.from)
    ELSE Cmp(span_w(r1), span_w(r2))

\* the endpoints (a, b) and (c, d) of two intervals and a value
IntervalInit ==
    /\ \E a \in Ends, b \in Ends, c \in Ends, d \in Ends, v \in Ends :
          last = [op |-> "drawn", a |-> a, b |-> b, c |-> c, d |-> d, v |-> v]
    /\ phase = "init"
    /\ config = NoConfig
    /\ loads = 0
    /\ CURRENT_STATE_ID = 0
    /\ joysticks = <<>>
    /\ ffConsumers = {}
    /\ mouseReaders = <<>>
    /\ midiConnections = {}
    /\ router = <<>>
    /\ idle_tick_mappings = <<>>
    /\ idle_flags = <<>>
    /\ step_data = NoStepData
    /\ now = 0
    /\ midi_channel = <<>>
    /\ mouse_channel = <<>>
    /\ ticker_due = FALSE
    /\ overlay = NoOverlay

\* the results of new, clamp, try_invert_value (once and twice), == and
\* partial_cmp on the drawn endpoints
IntervalResults(d, r, r2) ==
    [op |-> "compared", a |-> d.a, b |-> d.b, c |-> d.c, d |-> d.d, v |-> d.v,
     r |-> r, r2 |-> r2,
     clamped |-> clamp(r, d.v),
     inverted |-> try_invert_value(r, d.v),
     twice |-> IF try_invert_value(r, d.v)[1]
               THEN try_invert_value(r, try_invert_value(r, d.v)[2])
               ELSE try_invert_value(r, d.v),
     eq |-> IntervalEq(r, r2),
     cmp |-> partial_cmp(r, r2)]

IntervalOperations ==
    /\ last.op = "drawn"
    /\ last' = IntervalResults(last, NumIntervalNew(last.a, last.b),
                               NumIntervalNew(last.c, last.d))
    /\ UNCHANGED <<phase, config, loads, CURRENT_STATE_ID, joysticks, ffConsumers,
                   mouseReaders, midiConnections, router, idle_tick_mappings,
                   idle_flags, step_data, now, loop_vars>>

\* the resolved mapping midi1/cc2 -> js2/AbsY without steps, between controls
\* of the given ranges
PassThrough(src, dst) ==
    load(ScenarioConfig(src, SymmRange, SymmRange, dst,
                        <<Mapping("PassThrough", TRUE, "midi1", "cc2", "js2", "AbsY",
                                  <<>>)>>), 0).config.mappings[1]

\* apply_transformation of the mapping without steps on an endpoint of the
\* source range
EmptyPipelineRuns(end) ==
    /\ last.op = "drawn"
    /\ last' = [op |-> "transformed", end |-> end,
                src |-> NumIntervalNew(last.a, last.b),
                dst |-> NumIntervalNew(last.c, last.d),
                out |-> apply_transformation(
                            PassThrough(NumIntervalNew(last.a, last.b),
                                        NumIntervalNew(last.c, last.d)),
                            AsF32(IF end = "from" THEN NumIntervalNew(last.a, last.b).from
                                  ELSE NumIntervalNew(last.a, last.b).to),
                            FALSE, NoStepData, <<>>, 0).value]
    /\ UNCHANGED <<phase, config, loads, CURRENT_STATE_ID, joysticks, ffConsumers,
                   mouseReaders, midiConnections, router, idle_tick_mappings,
                   idle_flags, step_data, now, loop_vars>>

IntervalNext ==
    \/ IntervalOperations
    \/ \E end \in {"from", "to"} : EmptyPipelineRuns(end)

IntervalSpec == IntervalInit /\ [][IntervalNext]_vars

\* ------------------------------------------------------------------
\* Hot reloads between configuration files that differ in the entry of
\* the virtual joystick js1: its persistence, its controls, its presence
\* (src/src/driver.rs, src/src/joystick.rs)
\* ------------------------------------------------------------------
\* a file with one mapping whose joystick js1, if it has an entry, is
\* persistent or not and has the absolute axes js1_controls
JoystickFile(js1_persistent, js1_controls, has_js1, mapping) ==
    [MkConfig(None, js1_persistent, SymmRange, <<mapping>>)
        EXCEPT !.virtual_joysticks =
            [k \in (IF has_js1 THEN {"js1", "js2"} ELSE {"js2"}) |->
                IF k = "js1"
                THEN [@[k] EXCEPT !.controls =
                         [c \in js1_controls |-> JoyControl("Absolute", SymmRange, 0)]]
                ELSE @[k]]]

\* the mapping midi1/cc1 -> joystick/control without steps
Straight(joystick, control) ==
    Mapping(control, TRUE, "midi1", "cc1", joystick, control, <<>>)

ReloadFiles ==
    {JoystickFile(p, {"AbsX"}, TRUE, Straight("js1", "AbsX")) : p \in BOOLEAN}
    \cup {JoystickFile(p, {"AbsX", "AbsZ"}, TRUE, Straight("js1", "AbsZ")) : p \in BOOLEAN}
    \cup {JoystickFile(FALSE, {"AbsX"}, FALSE, Straight("js2", "AbsY"))}

ReloadNext ==
    \/ \E file \in ReloadFiles, ok_ports \in SUBSET MidiPorts :
          StartEngine(file, ok_ports, TRUE) /\ UNCHANGED loop_vars
    \/ \E file \in ReloadFiles, ok_ports \in SUBSET MidiPorts :
          HotReload(file, ok_ports, TRUE) /\ UNCHANGED loop_vars
    \/ \E port \in MidiPorts, value \in MidiValues, emit_ok \in BOOLEAN :
          ProcessMidiMessage(port, 1, value, emit_ok) /\ UNCHANGED loop_vars
    \/ Shutdown /\ UNCHANGED loop_vars

ReloadSpec == Init /\ [][ReloadNext]_vars

\* ------------------------------------------------------------------
\* The pedal smoother over unbounded time: the engine runs the mapping
\* "Pedal", idle ticks and active inputs alternate freely.  Instants are
\* kept relative to `now`: an instant more than MaxPipeNow seconds old is
\* remembered as MaxPipeNow seconds old.
\* ------------------------------------------------------------------
PedalReadings == {0, 4}

PedalStartEngine ==
    PipeStartEngine(CHOOSE file \in PipeFiles : file.mappings[1].name = "Pedal")

\* a second passes on the clock of Instant::now()
PedalTimePasses ==
    /\ phase = "running"
    /\ IF now < MaxPipeNow
       THEN now' = now + 1 /\ UNCHANGED step_data
       ELSE /\ UNCHANGED now
            /\ step_data' =
                  [step_data EXCEPT !.time1 = [k \in DOMAIN @ |-> Max(@[k] - 1, 0)],
                                    !.time2 = [k \in DOMAIN @ |-> Max(@[k] - 1, 0)]]
    /\ last' = Did("none", TRUE, <<>>)
    /\ UNCHANGED <<phase, config, loads, CURRENT_STATE_ID, joysticks, ffConsumers,
                   mouseReaders, midiConnections, router, idle_tick_mappings, idle_flags,
                   loop_vars>>

\* the ticker of run() completes a period
PedalTickerElapses ==
    /\ phase = "running"
    /\ ~ticker_due
    /\ ticker_due' = TRUE
    /\ last' = Did("none", TRUE, <<>>)
    /\ UNCHANGED <<phase, config, loads, CURRENT_STATE_ID, joysticks, ffConsumers,
                   mouseReaders, midiConnections, router, idle_tick_mappings, idle_flags,
                   step_data, now, midi_channel, mouse_channel, overlay>>

\* the tick branch of select! completes: process_idle_tick
PedalIdleTick ==
    /\ ticker_due
    /\ ProcessIdleTick(TRUE)
    /\ ticker_due' = FALSE
    /\ UNCHANGED <<midi_channel, mouse_channel, overlay>>

PedalNext ==
    \/ PedalStartEngine
    \/ \E value \in PedalReadings : PipeMidiMessage(value)
    \/ PedalTickerElapses
    \/ PedalIdleTick
    \/ PedalTimePasses

\* the steps of PedalIdleTick seen on the ticker alone
DueTickIsTaken ==
    /\ phase = "running"
    /\ ticker_due
    /\ ticker_due' = FALSE

\* the ticker keeps firing, a due tick is served and the clock keeps running
PedalSpec ==
    /\ Init /\ [][PedalNext]_vars
    /\ WF_ticker_due(PedalTickerElapses)
    /\ WF_ticker_due(DueTickIsTaken)
    /\ WF_vars(PedalTimePasses)

\* ------------------------------------------------------------------
\* Properties
\* ------------------------------------------------------------------
\* the resolved mapping of the configuration in force with the given name
MappingNamed(name) == CHOOSE m \in Range(config.mappings) : m.name = name

\* the runtime device names under which mapping i is routed
RoutedUnder(i) == {n \in DOMAIN router : i \in Range(router[n])}

HasNoStatefulStep(m) ==
    \A i \in DOMAIN m.transformation :
        m.transformation[i].kind \notin {"Steering", "PedalSmoother"}

DeclaredRange(dst) == config.virtual_joysticks[dst[1]].controls[dst[2]].range

Serving == {"midi", "mouse", "idle_tick"}

\* C1: on active inputs and on idle ticks alike, the value a pipeline run
\* returns lies within the declared range [from, to] of its destination
\* control, and so does the value stored on the control.
C1_OutputWithinDeclaredRange ==
    \A i \in DOMAIN last.runs :
        LET run == last.runs[i]
            r == DeclaredRange(run.dst)
        IN /\ AsF32(r.from) <= run.out
           /\ run.out <= AsF32(r.to)
           /\ IsSome(run.stored) => r.from <= run.stored[1] /\ run.stored[1] <= r.to

\* a raw input outside its source range went through a pipeline and was
\* stored on the destination control
C1_Witness ==
    \E i \in DOMAIN last.runs :
        LET run == last.runs[i]
            m == MappingNamed(run.m)
        IN /\ ~run.idle
           /\ IsSome(m.source.range)
           /\ ~contains_inclusive(CastF32(m.source.range[1]), run.input)
           /\ IsSome(run.stored)

\* C2: a mapping with no Steering and no PedalSmoother step never appears
\* in idle_tick_mappings and is never run by process_idle_tick.
C2_StatelessMappingNeverIdleTicked ==
    /\ \A k \in DOMAIN idle_tick_mappings :
          ~HasNoStatefulStep(config.mappings[idle_tick_mappings[k]])
    /\ \A i \in DOMAIN last.runs :
          last.runs[i].idle => ~HasNoStatefulStep(MappingNamed(last.runs[i].m))

\* an idle tick ran a pipeline on a control that a routed mapping without
\* stateful steps targets too
C2_Witness ==
    \E i \in DOMAIN last.runs :
        /\ last.runs[i].idle
        /\ \E j \in DOMAIN config.mappings :
              /\ HasNoStatefulStep(config.mappings[j])
              /\ DestOf(config.mappings[j]) = last.runs[i].dst
              /\ RoutedUnder(j) # {}

\* C3: once the idle_tick_enabled_flag of a destination control is set, it
\* stays set for the rest of the life of the engine instance, whatever
\* input arrives on any mapping.
C3_IdleFlagStaysSet ==
    [][loads' = loads =>
          \A d \in DOMAIN idle_flags :
              idle_flags[d] => d \in DOMAIN idle_flags' /\ idle_flags'[d]]_vars

\* a successful hot reload: the engine was restarted
Reloaded == phase = "running" /\ phase' = "running" /\ loads' = loads + 1

SameDevice(k) ==
    /\ k \in DOMAIN joysticks'
    /\ joysticks'[k].inst = joysticks[k].inst
    /\ joysticks'[k].control_states = joysticks[k].control_states

FreshDevice(k) ==
    /\ joysticks'[k].inst = loads'
    /\ \A c \in DOMAIN joysticks'[k].control_states :
          joysticks'[k].control_states[c] = config'.virtual_joysticks[k].controls[c].initial_value

C6_ShutdownRemovesAllJoysticks ==
    phase = "stopped" => DOMAIN joysticks = {} /\ ffConsumers = {}

\* a shutdown under a configuration with an enabled persistent joystick
\* that has force feedback
C6_Witness ==
    /\ phase = "stopped"
    /\ \E k \in DOMAIN config.virtual_joysticks :
          /\ config.virtual_joysticks[k].enabled
          /\ config.virtual_joysticks[k].persistent
          /\ is_ff_enabled(config.virtual_joysticks[k])

\* C7: a joystick configured with enabled=false does not exist, no mapping
\* to it is routed and no pipeline run targets it; a joystick configured
\* without `enabled` exists while the engine runs.
C7_NoWriteToDisabledJoystick ==
    \A i \in DOMAIN config.mappings :
        LET m == config.mappings[i]
            key == m.destination.device_key
        IN /\ m.destination.joystick.enabled = Some(FALSE) =>
                 /\ key \notin DOMAIN joysticks
                 /\ RoutedUnder(i) = {}
                 /\ \A r \in DOMAIN last.runs : last.runs[r].dst[1] # key
           /\ (m.destination.joystick.enabled = None /\ phase = "running") =>
                 key \in DOMAIN joysticks

\* a mouse event arrived after a hot reload disabled the joystick its
\* mappings write to
C7_Witness ==
    /\ loads = 2
    /\ last.op = "mouse"
    /\ \E i \in DOMAIN config.mappings :
          /\ config.mappings[i].source.kind = "Mouse"
          /\ config.mappings[i].destination.joystick.enabled = Some(FALSE)

\* C8: a mapping is routed only if it is enabled, its destination joystick
\* is enabled and exists, and the runtime device it is routed under was
\* opened and matches its source device key; idle_tick_mappings and the
\* pipeline runs hold routed mappings only.
C8_RoutedOnlyIfAllConditionsHold ==
    phase = "running" =>
        /\ \A n \in DOMAIN router : \A k \in DOMAIN router[n] :
              LET m == config.mappings[router[n][k]]
                  src == m.source.device_key
              IN /\ m.enabled
                 /\ config.virtual_joysticks[m.destination.device_key].enabled
                 /\ m.destination.device_key \in DOMAIN joysticks
                 /\ IF src \in DOMAIN config.midi_devices
                    THEN /\ n \in midiConnections
                         /\ config.midi_devices[src].enabled
                         /\ n \in config.midi_devices[src].matches
                    ELSE /\ n = src
                         /\ n \in DOMAIN mouseReaders
                         /\ config.mouse_devices[src].enabled
        /\ \A k \in DOMAIN idle_tick_mappings : RoutedUnder(idle_tick_mappings[k]) # {}
        /\ \A r \in DOMAIN last.runs :
              \E i \in DOMAIN config.mappings :
                  config.mappings[i].name = last.runs[r].m /\ RoutedUnder(i) # {}

\* an input was served while a mapping of the configuration is not routed
\* and a matched MIDI port failed to open
C8_Witness ==
    /\ phase = "running"
    /\ last.runs # <<>>
    /\ \E i \in DOMAIN config.mappings : RoutedUnder(i) = {}
    /\ \E pk \in MatchedMidi(config) : pk[1] \notin midiConnections

\* C9: no input value, idle tick or control reading makes the engine panic.
C9_NeverPanics == phase # "panicked"

\* C10: an I/O error of a reader or of a writer does not end the engine
\* loop.
C10_IoErrorNotFatalForEngine ==
    last.op \in Serving \cup {"read_error"} => phase # "error"

\* a step inside the life of one running engine
InEngine == phase = "running" /\ loads' = loads /\ phase' # "stopped"

MidiTaken == Len(midi_channel') < Len(midi_channel)
MouseTaken == Len(mouse_channel') < Len(mouse_channel)
TickTaken == ticker_due /\ ~ticker_due'

\* C11: every iteration of the engine loop takes exactly one ready source
\* (one MIDI message, one mouse event or one due tick) and runs its handler,
\* no handler runs without a source being taken, and a due tick is
\* eventually served while the engine runs, however the inputs keep arriving.
C11_OneSourceServedAndTickNotStarved ==
    /\ [][InEngine =>
            /\ ~(MidiTaken /\ MouseTaken) /\ ~(MidiTaken /\ TickTaken)
            /\ ~(MouseTaken /\ TickTaken)
            /\ MidiTaken => /\ Len(midi_channel') = Len(midi_channel) - 1
                            /\ last'.op = "midi"
            /\ MouseTaken => /\ Len(mouse_channel') = Len(mouse_channel) - 1
                             /\ last'.op = "mouse"
            /\ TickTaken => last'.op = "idle_tick"
            /\ (last' # last /\ last'.op \in Serving) => MidiTaken \/ MouseTaken \/ TickTaken
            /\ ~(MidiTaken \/ MouseTaken \/ TickTaken) =>
                  UNCHANGED <<joysticks, idle_flags, step_data>>]_vars
    /\ (ticker_due /\ phase = "running") ~> (~ticker_due \/ phase # "running")

\* the tick was served and ran a pipeline while a MIDI message and a mouse
\* event were both waiting in their channels
C11_Witness ==
    /\ last.op = "idle_tick"
    /\ last.runs # <<>>
    /\ midi_channel # <<>>
    /\ mouse_channel # <<>>

\* the engines on which stop() has returned
StoppedEngines == {inst \in 1..loads : inst < loads \/ phase = "stopped"}

\* C12: once stop() has returned on an engine, its overlay thread has been
\* cancelled and has terminated, and after the final stop the MIDI
\* connections are dropped and the mouse readers are told to stop.
C12_StopJoinsOverlayAndStopsManagers ==
    /\ \A inst \in StoppedEngines :
          /\ ThreadsOf(overlay, inst) = 0
          /\ inst \in DOMAIN overlay.threads => inst \in overlay.cancelled
    /\ phase = "stopped" => midiConnections = {} /\ DOMAIN mouseReaders = {}

StatefulKinds == {"Steering", "PedalSmoother", "Integrate", "EmaFilter", "LowPass"}

\* the places of a configuration that hold a runtime-state id: the stateful
\* steps and the EMA sub-filter of each steering step
IdSlots(cfg) ==
    {sl \in UNION {{<<i, j, f>> : j \in DOMAIN cfg.mappings[i].transformation,
                                  f \in {"runtime_state_id", "ema_id"}} :
                   i \in DOMAIN cfg.mappings} :
        \/ sl[3] = "runtime_state_id"
           /\ cfg.mappings[sl[1]].transformation[sl[2]].kind \in StatefulKinds
        \/ sl[3] = "ema_id" /\ cfg.mappings[sl[1]].transformation[sl[2]].kind = "Steering"}

IdOf(cfg, sl) == cfg.mappings[sl[1]].transformation[sl[2]][sl[3]]

\* C13: the runtime-state ids of the configuration in force (the EMA
\* sub-filter ids included) are pairwise distinct and were drawn from the
\* counter, every entry of the step state belongs to the one step that owns
\* its id, and the ids of a restarted engine were never handed out before,
\* whatever loads and validation loads came in between.
C13_RuntimeStateIdsUnique ==
    /\ [](/\ \A s1, s2 \in IdSlots(config) :
                IdOf(config, s1) = IdOf(config, s2) => s1 = s2
          /\ \A sl \in IdSlots(config) :
                IdOf(config, sl) >= 0 /\ IdOf(config, sl) < CURRENT_STATE_ID
          /\ \A id \in DOMAIN step_data.f32_1 \cup DOMAIN step_data.f32_2
                        \cup DOMAIN step_data.time1 \cup DOMAIN step_data.time2 :
                Cardinality({sl \in IdSlots(config) : IdOf(config, sl) = id}) = 1)
    /\ [][loads' # loads =>
            \A sl \in IdSlots(config') : IdOf(config', sl) >= CURRENT_STATE_ID]_vars

\* the second engine runs on ids drawn after a validation load, several
\* steps of it hold state and an id of the first engine is not in use again
C13_Witness ==
    /\ loads = 2
    /\ Cardinality(IdSlots(config)) >= 3
    /\ \A sl \in IdSlots(config) : IdOf(config, sl) >= 6
    /\ Cardinality(DOMAIN step_data.f32_1 \cup DOMAIN step_data.time1) >= 2

\* ------------------------------------------------------------------
\* Single pipelines (PipeSpec)
\* ------------------------------------------------------------------
\* the raw readings a source device may deliver, as f32
RawReadings == {AsF32(v) : v \in PipeMidiValues \cup PipeMouseValues}

SourceRange(m) == CastF32(UnwrapOr(m.source.range, NumIntervalNew(0, 127)))

\* the value and range handed on after the first n steps of the pipeline of
\* mapping m, run in the current state on the reading `value`
HandedOn(m, n, value, is_idle_tick) ==
    RunSteps([m EXCEPT !.transformation = SubSeq(@, 1, n)], 1,
             ClampOnEntry(SourceRange(m), value, step_data),
             CastF32(m.destination.control.range), is_idle_tick, joysticks, now)

\* C14: on entry the raw value is clamped into the source range, and after
\* every step the value handed to the next step lies inside the current
\* range handed along with it.
C14_HandedValueInsideCurrentRange ==
    phase = "running" =>
        \A i \in DOMAIN config.mappings, value \in RawReadings, is_idle_tick \in BOOLEAN :
            \A n \in 0 .. Len(config.mappings[i].transformation) :
                LET InRange(h) == h.panic \/ contains_inclusive(h.range, h.value)
                IN InRange(HandedOn(config.mappings[i], n, value, is_idle_tick))

\* the part of C14 about the entry alone
C14_ClampedOnEntry ==
    phase = "running" =>
        \A i \in DOMAIN config.mappings, value \in RawReadings :
            LET InRange(h) == h.range = SourceRange(config.mappings[i])
                              /\ contains_inclusive(h.range, h.value)
            IN InRange(HandedOn(config.mappings[i], 0, value, FALSE))

\* the pedal smoother of the running configuration, when its only mapping
\* ends in one
PedalRuns == phase = "running" /\ config.mappings[1].name \in {"Pedal", "ScaledPedal"}
PedalSmoother == config.mappings[1].transformation[Len(config.mappings[1].transformation)]
PedalId == PedalSmoother.runtime_state_id
PedalRange == SourceRange(config.mappings[1])
\* stored output, last target and the times of the last call and last input
PedalOut(data) == data.f32_2[PedalId]
PedalTarget(data) == data.f32_1[PedalId]
PedalStored(data) == PedalId \in DOMAIN data.f32_2 /\ PedalId \in DOMAIN data.time2
SinceCall(data, t) == t - data.time1[PedalId]
SinceInput(data, t) == t - data.time2[PedalId]
PedalTicked == last.op = "idle_tick" /\ last.runs # <<>>

\* C15: after a step-down input to a pedal smoother with fall_delay = T an
\* idle tick leaves the output where it is as long as no more than T seconds
\* have passed since the last user input; later ticks let it fall towards
\* the target at fall_rate times the gentling factor (1 here).
C15_FallDelayHoldsOutput ==
    [][(/\ PedalRuns
        /\ PedalStored(step_data)
        /\ IsSome(PedalSmoother.p.fall_delay)
        /\ PedalTarget(step_data) < PedalOut(step_data)
        /\ last'.op = "idle_tick" /\ last'.runs # <<>>)
       => IF SinceInput(step_data, now) <= PedalSmoother.p.fall_delay[1]
          THEN PedalOut(step_data') = PedalOut(step_data)
          ELSE PedalOut(step_data') =
                   Max(PedalTarget(step_data),
                       PedalOut(step_data)
                       - PedalSmoother.p.fall_rate * SinceCall(step_data, now))]_vars

\* an idle tick exactly T seconds after a step-down input has run the pedal
C15_Witness ==
    /\ PedalRuns
    /\ PedalTicked
    /\ PedalStored(step_data)
    /\ PedalTarget(step_data) < PedalOut(step_data)
    /\ SinceInput(step_data, now) = PedalSmoother.p.fall_delay[1]
    /\ last.runs[1].idle

Committed(js) ==
    js[config.mappings[1].destination.device_key]
        .control_states[config.mappings[1].destination.control_key]

\* the output of the pedal smoother has not moved from its initial value
NeverMoved(data) == PedalId \in DOMAIN data.f32_2 => PedalOut(data) = PedalRange.from

\* C17: the destination control of a pedal mapping keeps its configured
\* initial_value over every step that leaves the output of the smoother
\* unmoved: over the active inputs before the first idle tick that moves it.
C17_InitialValueKeptUntilOutputMoves ==
    [][(/\ PedalRuns
        /\ NeverMoved(step_data)
        /\ NeverMoved(step_data')
        /\ Committed(joysticks) = config.mappings[1].destination.control.initial_value)
       => Committed(joysticks') = Committed(joysticks)]_vars

\* an idle tick runs a pedal smoother with smoothing_alpha = 1 that holds an
\* output and a target
PedalTickStep ==
    /\ PedalRuns
    /\ PedalStored(step_data)
    /\ PedalSmoother.p.smoothing_alpha = FixedOne
    /\ last'.op = "idle_tick" /\ last'.runs # <<>>

\* the output after the tick lies between the output before it and the
\* target, at most max_delta away from the former, and equals `reached`
\* when the target is no farther away than max_delta
MovesToward(prev_out, target, out, max_delta, reached) ==
    /\ Abs(out - prev_out) <= max_delta
    /\ Min(prev_out, target) <= out /\ out <= Max(prev_out, target)
    /\ Abs(target - prev_out) <= max_delta => out = reached

\* C18 as stated: on an idle tick with smoothing_alpha = 1 the output moves
\* toward the last target by at most rate*dt, with rise_rate when rising and
\* fall_rate times gentling (1 here) when falling, and equals the target
\* after the tick when the target is at most rate*dt away.
C18_ReachesTargetWithinRate ==
    [][PedalTickStep =>
        MovesToward(PedalOut(step_data), PedalTarget(step_data), PedalOut(step_data'),
                    (IF PedalTarget(step_data) > PedalOut(step_data)
                     THEN PedalSmoother.p.rise_rate
                     ELSE PedalSmoother.p.fall_rate) * SinceCall(step_data, now),
                    PedalTarget(step_data))]_vars

\* C18 amended: the falling rate is 0 until more than fall_delay seconds have
\* passed since the last user input, and the value reached is the target
\* clamped into the current range of the step.
C18_ReachesTargetWithinEffectiveRate ==
    [][PedalTickStep =>
        MovesToward(PedalOut(step_data), PedalTarget(step_data), PedalOut(step_data'),
                    (IF PedalTarget(step_data) > PedalOut(step_data)
                     THEN PedalSmoother.p.rise_rate
                     ELSE IF /\ IsSome(PedalSmoother.p.fall_delay)
                             /\ SinceInput(step_data, now) <= PedalSmoother.p.fall_delay[1]
                     THEN 0
                     ELSE PedalSmoother.p.fall_rate) * SinceCall(step_data, now),
                    clamp(PedalRange, PedalTarget(step_data)))]_vars

\* an idle tick has brought the output from the lower end of the range to
\* the target 1
C18_Witness ==
    /\ PedalRuns
    /\ PedalTicked
    /\ PedalStored(step_data)
    /\ PedalTarget(step_data) = AsF32(1)
    /\ PedalOut(step_data) = PedalTarget(step_data)

\* the only mapping of the running configuration is the steering wheel `name`
WheelRuns(name) == phase = "running" /\ config.mappings[1].name = name

WheelRange == config.mappings[1].destination.control.range

\* the steering position p that the transform reads back from the value
\* held by the destination control
PositionOf(control_value) ==
    map_from(SYMM_UNIT_INTERVAL, AsF32(control_value), CastF32(WheelRange))

\* no value of the control lies nearer to the centre
AtCentre(control_value) ==
    \A other \in WheelRange.from .. WheelRange.to :
        Abs(PositionOf(control_value)) <= Abs(PositionOf(other))

\* an idle tick runs the steering transform; `later` when time has passed
\* since the transform ran last
WheelTickStep == last'.op = "idle_tick" /\ last'.runs # <<>>
SinceWheelRan == now - step_data.time1[config.mappings[1].transformation[1].runtime_state_id]

\* C19: with auto_center_halflife > 0, hold_factor = 0 and no force
\* feedback, an idle tick never increases the magnitude |p| of the steering
\* position, and it strictly decreases |p| while p is not at centre.
C19_AutoCenterDecreasesMagnitude ==
    [][(WheelRuns("FreeWheel") /\ WheelTickStep)
       => /\ Abs(PositionOf(Committed(joysticks'))) <= Abs(PositionOf(Committed(joysticks)))
          /\ (~AtCentre(Committed(joysticks)) /\ SinceWheelRan > 0)
                => Abs(PositionOf(Committed(joysticks')))
                       < Abs(PositionOf(Committed(joysticks)))]_vars

\* the part of C19 that holds: |p| never increases
C19_MagnitudeNeverIncreases ==
    [][(WheelRuns("FreeWheel") /\ WheelTickStep)
       => Abs(PositionOf(Committed(joysticks'))) <= Abs(PositionOf(Committed(joysticks)))]_vars

\* C20: with hold_factor = 1 an idle tick changes neither the steering
\* position p nor the value committed to the destination control, whatever
\* force-feedback effect is playing.
C20_HeldWheelStationary ==
    [][(WheelRuns("HeldWheel") /\ WheelTickStep)
       => /\ Committed(joysticks') = Committed(joysticks)
          /\ PositionOf(Committed(joysticks')) = PositionOf(Committed(joysticks))]_vars

\* the only mapping has run on the input or idle tick of this step
WheelRanStep == last'.op \in {"midi", "mouse", "idle_tick"} /\ last'.runs # <<>>

\* delta of the steering step for the input of the run, which reaches the
\* step clamped into the source range
SteeringDelta(run) ==
    (clamp(SourceRange(config.mappings[1]), run.input) * FixedOne)
        \div (Max(config.mappings[1].transformation[1].p.counts_to_lock, FixedOne) \div 2)

\* the value the pipeline returns for the steering position p
OutputAt(p) == map_from(CastF32(WheelRange), p, SYMM_UNIT_INTERVAL)

\* C21 as stated: in the mod-wheel scenario each active input v adds
\* v/(counts_to_lock/2) to the steering position, so that the inputs 64, 64, 0
\* leave it at 64/30, 128/30 and 128/30 of full-scale deflection.
C21_InputAddsToPosition ==
    [][(WheelRuns("ModWheel") /\ WheelRanStep)
       => last'.runs[1].out
              = OutputAt(PositionOf(Committed(joysticks)) + SteeringDelta(last'.runs[1]))]_vars

\* C21 amended: the sum is clamped into [-1, 1], so the inputs 64, 64, 0
\* leave the wheel at full-scale deflection, where zero inputs and idle
\* ticks change nothing.
C21_InputAddsToPositionClamped ==
    [][(WheelRuns("ModWheel") /\ WheelRanStep)
       => /\ last'.runs[1].out
                = OutputAt(clamp(SYMM_UNIT_INTERVAL,
                                 PositionOf(Committed(joysticks))
                                 + SteeringDelta(last'.runs[1])))
          /\ (Committed(joysticks) = WheelRange.to /\ last'.runs[1].input = 0)
                => Committed(joysticks') = WheelRange.to]_vars

\* the mod wheel has sent 0 with the wheel at full-scale deflection
C21_Witness ==
    /\ WheelRuns("ModWheel")
    /\ last.op = "midi" /\ last.runs # <<>>
    /\ last.runs[1].input = 0
    /\ Committed(joysticks) = WheelRange.to

\* the joysticks with another state of the force-feedback consumer of the
\* destination joystick of the only mapping
WithPlayedSumm(summ) ==
    [joysticks EXCEPT ![config.mappings[1].destination.device_key].ff_played_summ_norm = summ]

\* the only mapping with other force-feedback settings of its steering step
WithStepFF(ff) == [config.mappings[1] EXCEPT !.transformation[1].p.force_feedback = ff]

StepFFSettings ==
    {None, Some(FFConfig), Some([FFConfig EXCEPT !.constant_force_invert = TRUE]),
     Some([FFConfig EXCEPT !.enabled = FALSE])}

PlayedSumms == {0 - FixedOne, 0 - (FixedOne \div 2), 0, FixedOne \div 2, FixedOne}

\* C22: when force feedback is disabled on the destination joystick, a run
\* of the steering pipeline returns the same value and leaves the same step
\* data whatever the consumer's summary and the step's force-feedback
\* settings are: two runs with the same inputs and tick times agree.
C22_OutputIndependentOfDisabledFF ==
    (WheelRuns("UnpoweredWheel")
     /\ ~joysticks[config.mappings[1].destination.device_key].ff_enabled)
    => \A value \in RawReadings, is_idle_tick \in BOOLEAN :
         \A summ \in PlayedSumms, ff \in StepFFSettings :
            apply_transformation(WithStepFF(ff), value, is_idle_tick, step_data,
                                 WithPlayedSumm(summ), now)
            = apply_transformation(config.mappings[1], value, is_idle_tick, step_data,
                                   joysticks, now)

\* an idle tick has run the steering step, whose force feedback is enabled,
\* some time after the user moved the wheel of the joystick without it
C22_Witness ==
    /\ WheelRuns("UnpoweredWheel")
    /\ ~joysticks[config.mappings[1].destination.device_key].ff_enabled
    /\ config.mappings[1].transformation[1].p.force_feedback[1].enabled
    /\ last.op = "idle_tick" /\ last.runs # <<>>
    /\ now > 0
    /\ Committed(joysticks) # 0

\* ff_force of the steering step `st`: summary * scale, negated if invert
FfForce(st) ==
    LET scaled == FMul(joysticks[config.mappings[1].destination.device_key].ff_played_summ_norm,
                       st.force_feedback[1].constant_force_scale)
    IN IF st.force_feedback[1].constant_force_invert THEN 0 - scaled ELSE scaled

\* ff_force * (1 - hold_factor) * influence * dt, for a constant hold factor
FfDisplacement(st, dt) ==
    FMul(FMul(FfForce(st), FixedOne - st.hold_factor[1].v),
         st.force_feedback[1].constant_force_influence) * dt

\* seconds since the steering step ran last, 0 on its first call
SteeringDt ==
    IF config.mappings[1].transformation[1].runtime_state_id \in DOMAIN step_data.time1
    THEN SinceWheelRan ELSE 0

\* C23: with the step's force feedback enabled one call of the steering
\* step displaces the position by ff_force * (1 - hold_factor) * influence * dt,
\* where ff_force is summary * scale, negated if invert; a force of at most
\* 0.001 (0 here) displaces nothing.  Auto-centering is off.
C23_ForceFeedbackDisplacement ==
    [][(WheelRuns("PushedWheel") /\ WheelRanStep)
       => last'.runs[1].out
              = OutputAt(clamp(SYMM_UNIT_INTERVAL,
                               PositionOf(Committed(joysticks))
                               + SteeringDelta(last'.runs[1])
                               + (IF Abs(FfForce(config.mappings[1].transformation[1].p)) > 0
                                  THEN FfDisplacement(config.mappings[1].transformation[1].p,
                                                      SteeringDt)
                                  ELSE 0)))]_vars

\* an idle tick has pushed the wheel while an effect was playing
C23_Witness ==
    /\ WheelRuns("PushedWheel")
    /\ last.op = "idle_tick" /\ last.runs # <<>>
    /\ joysticks["js1"].ff_played_summ_norm # 0
    /\ Committed(joysticks) # 0
    /\ PositionOf(Committed(joysticks)) < 0

\* ------------------------------------------------------------------
\* The force feedback consumer (FfSpec)
\* ------------------------------------------------------------------
\* the consumer of joystick `key` handles the first collected event
FfProcessStep(key) ==
    /\ key \in DOMAIN joysticks /\ key \in DOMAIN joysticks'
    /\ joysticks[key].ff_thread.at = "process"
    /\ joysticks'[key].ff_thread.collected_events = Tail(joysticks[key].ff_thread.collected_events)

FfHandled(key) == Head(joysticks[key].ff_thread.collected_events)

FfTable(js, key) == js[key].ff_thread.ff_working_state.uploaded_effects

FfPlayed(js, key) == js[key].ff_thread.ff_working_state.played_effect

\* level / (half of the level range)
LevelNorm(level) == (AsF32(level) * FixedOne) \div (AsF32(32767 - (0 - 32768)) \div 2)

\* C24: the summary the consumer publishes after it handled a play event
\* (an EV_FF event of positive value) for a stored constant-force effect is
\* level / (half of the level range); it is 0 after a stop event, after the
\* erasure of the playing effect and while nothing is uploaded; play()
\* publishes the summary of the working state.
C24_SummaryFollowsPlayEvents ==
    [][\A key \in {"js1", "js2"} :
          /\ FfProcessStep(key) =>
                /\ (/\ FfHandled(key).type = "EV_FF" /\ FfHandled(key).value > 0
                    /\ FfHandled(key).code \in DOMAIN FfTable(joysticks, key))
                   => play(joysticks'[key].ff_thread.ff_working_state)
                          = LevelNorm(FfTable(joysticks, key)[FfHandled(key).code].level)
                /\ (FfHandled(key).type = "EV_FF" /\ FfHandled(key).value = 0)
                   => play(joysticks'[key].ff_thread.ff_working_state) = 0
                /\ (/\ FfHandled(key).type = "UI_FF_ERASE"
                    /\ IsSome(FfPlayed(joysticks, key))
                    /\ FfPlayed(joysticks, key)[1][1] = FfHandled(key).code)
                   => play(joysticks'[key].ff_thread.ff_working_state) = 0
          /\ (key \in DOMAIN joysticks' /\ joysticks'[key].ff_thread.at = "fetch")
             => /\ joysticks'[key].ff_played_summ_norm
                       = play(joysticks'[key].ff_thread.ff_working_state)
                /\ FfTable(joysticks', key) = <<>> => joysticks'[key].ff_played_summ_norm = 0]_vars

\* C25: the table of uploaded effects holds constant-force effects only and
\* never more than one; the upload of an effect of another kind is answered
\* with a failure return value and leaves the table and the playing-effect
\* marker unchanged.
C25_OnlyOneConstantForceStored ==
    [][\A key \in {"js1", "js2"} :
          /\ key \in DOMAIN joysticks'
             => /\ Cardinality(DOMAIN FfTable(joysticks', key)) <= VJ_FF_MAX_EFFECTS
                /\ \A id \in DOMAIN FfTable(joysticks', key) :
                       FfTable(joysticks', key)[id].kind = "ConstantForce"
          /\ (/\ FfProcessStep(key)
              /\ FfHandled(key).type = "UI_FF_UPLOAD"
              /\ FfHandled(key).kind # "Constant")
             => /\ joysticks'[key].platform_device_api.retval = Some(0 - 1)
                /\ FfTable(joysticks', key) = FfTable(joysticks, key)
                /\ FfPlayed(joysticks', key) = FfPlayed(joysticks, key)]_vars

\* an upload of another kind was refused while a constant force was stored
\* and playing
C25_Witness ==
    /\ "js1" \in DOMAIN joysticks
    /\ joysticks["js1"].platform_device_api.retval = Some(0 - 1)
    /\ DOMAIN FfTable(joysticks, "js1") = {0}
    /\ IsSome(FfPlayed(joysticks, "js1"))
    /\ joysticks["js1"].ff_thread.at = "play"

\* ------------------------------------------------------------------
\* Integrate, Clamp and the filters (PipeSpec)
\* ------------------------------------------------------------------
PipeRuns(name) == phase = "running" /\ config.mappings[1].name = name

\* a pipeline ran on an active input
ActiveRunStep == last'.op \in {"midi", "mouse"} /\ last'.runs # <<>>

FirstStepId == config.mappings[1].transformation[1].runtime_state_id

IntegrationRange == NumIntervalNew(0, AsF32(750))

\* the value the integrator holds: the midpoint of its range before its
\* first input
Integrated(data) ==
    IF FirstStepId \in DOMAIN data.f32_1 THEN data.f32_1[FirstStepId]
    ELSE (IntegrationRange.from + IntegrationRange.to) \div 2

\* C26: the Integrate step starts at the midpoint of its range and returns
\* clamp(previous + input, range) on every active input; the integration
\* range becomes the current range (of the step's result and of the final
\* remap: the destination has the range [0, 750] and receives the value as
\* integrated); an idle tick hands the value on and leaves the state
\* unchanged.
C26_IntegrateAccumulatesClamped ==
    [][(PipeRuns("Integrator") /\ ActiveRunStep)
       => /\ Integrated(step_data')
                 = clamp(IntegrationRange,
                         Integrated(step_data)
                         + clamp(SourceRange(config.mappings[1]), last'.runs[1].input))
          /\ HandedOn(config.mappings[1], 1, last'.runs[1].input, FALSE).value
                 = Integrated(step_data')
          /\ HandedOn(config.mappings[1], 1, last'.runs[1].input, FALSE).range
                 = IntegrationRange
          /\ last'.runs[1].out = Integrated(step_data')
          /\ HandedOn(config.mappings[1], 1, last'.runs[1].input, TRUE).data = step_data
          /\ HandedOn(config.mappings[1], 1, last'.runs[1].input, TRUE).range
                 = SourceRange(config.mappings[1])]_vars

\* the integrator holds 390 after an input of -5
C26_Witness ==
    /\ PipeRuns("Integrator")
    /\ last.op = "mouse" /\ last.runs # <<>>
    /\ last.runs[1].input = AsF32(0 - 5)
    /\ Integrated(step_data) = AsF32(390)
    /\ last.runs[1].out = AsF32(390)

\* the value and range handed on by the first n steps on the input of the run
Handed(n, run) == HandedOn(config.mappings[1], n, run.input, run.idle)

\* C27: the Clamp step returns its input clamped onto [from, to], a missing
\* bound being that of the current range; with override_range it hands
\* [from, to] on as the current range, otherwise the range it received.  In
\* "Clamped" (source [0, 127], clamp 50..100 with override, destination
\* [0, 1000]) the reading 200 gives 100 in [50, 100] and the output 1000.
C27_ClampStep ==
    [][/\ (PipeRuns("Clamped") /\ ActiveRunStep)
          => /\ Handed(1, last'.runs[1]).value
                    = Max(AsF32(50), Min(AsF32(100), Handed(0, last'.runs[1]).value))
             /\ Handed(1, last'.runs[1]).range = NumIntervalNew(AsF32(50), AsF32(100))
             /\ last'.runs[1].out
                    = map_from(CastF32(WheelRange), Handed(1, last'.runs[1]).value,
                               NumIntervalNew(AsF32(50), AsF32(100)))
       /\ (PipeRuns("Negated") /\ ActiveRunStep /\ ~Handed(2, last'.runs[1]).panic)
          => /\ Handed(2, last'.runs[1]).value
                    = Max(AsF32(1), Min(Handed(1, last'.runs[1]).range.to,
                                        Handed(1, last'.runs[1]).value))
             /\ Handed(2, last'.runs[1]).range = Handed(1, last'.runs[1]).range]_vars

\* the reading 200 has become the output 1000
C27_Witness ==
    /\ PipeRuns("Clamped")
    /\ last.op = "midi" /\ last.runs # <<>>
    /\ last.runs[1].input = AsF32(200)
    /\ last.runs[1].out = AsF32(1000)
    /\ Committed(joysticks) = 1000

\* the stored state of the filter that is the first step: the table of
\* previous outputs and the table of timestamps
FilterState(data) ==
    IF config.mappings[1].transformation[1].kind = "EmaFilter"
    THEN data.moving_average_step_data
    ELSE [f32_1 |-> data.f32_1, time1 |-> data.time1]

\* the stored state of the filter is the output `out` at the time `now`
Advanced(data, out) ==
    /\ FirstStepId \in DOMAIN FilterState(data).f32_1
    /\ FilterState(data).f32_1[FirstStepId] = out
    /\ FilterState(data).time1[FirstStepId] = now

\* C28: every invocation of an EMA or low-pass step advances its stored
\* state, the previous output and the timestamp: an active input stores
\* the output it returns, and so does an idle tick that on_idle = false
\* suppresses, which hands its input on unchanged.
C28_FilterStateAdvances ==
    [][((PipeRuns("Averaged") \/ PipeRuns("Filtered")) /\ ActiveRunStep)
       => /\ Advanced(step_data', Handed(1, last'.runs[1]).value)
          /\ Advanced(HandedOn(config.mappings[1], 1, last'.runs[1].input, TRUE).data,
                      Handed(1, last'.runs[1]).value)
          /\ HandedOn(config.mappings[1], 1, last'.runs[1].input, TRUE).value
                 = Handed(0, last'.runs[1]).value]_vars

\* ------------------------------------------------------------------
\* The joystick control surface
\* ------------------------------------------------------------------
\* f32 rounded to the nearest i32, halves away from zero
RoundToI32(x) ==
    IF x >= 0 THEN (x + FixedOne \div 2) \div FixedOne
    ELSE 0 - ((0 - x + FixedOne \div 2) \div FixedOne)

\* the pipelines of the step all wrote their destination controls
WritesSucceeded ==
    /\ last'.op \in {"midi", "mouse", "idle_tick"}
    /\ phase' = "running"

\* C29: after a successful set(control, v) the control reads 1 for a
\* button when v is not zero and 0 when it is zero, and v rounded to an i32
\* for an absolute axis; a control or a joystick that is not known reads 0.
C29_GetReturnsWhatSetStored ==
    [][/\ WritesSucceeded
          => \A i \in DOMAIN last'.runs :
                last'.runs[i].stored # None
                => last'.runs[i].stored[1]
                       = IF joysticks'[last'.runs[i].dst[1]].control_info[last'.runs[i].dst[2]]
                               = "Button"
                         THEN (IF last'.runs[i].out # 0 THEN 1 ELSE 0)
                         ELSE RoundToI32(last'.runs[i].out)
       /\ ManagerGetControlState(joysticks', "js1", "NoSuchControl") = 0
       /\ ManagerGetControlState(joysticks', "NoSuchJoystick", "AbsX") = 0]_vars

\* ------------------------------------------------------------------
\* MIDI messages and the mappings they trigger (PipeSpec)
\* ------------------------------------------------------------------
\* the number a message carries: the note, the controller or the program
NumberOf(msg) ==
    CASE msg.message_type \in {"NoteOn", "NoteOff"} -> msg.note
      [] msg.message_type = "ControlChange" -> msg.control
      [] msg.message_type = "ProgramChange" -> msg.value
      [] OTHER -> None

TypeAccepted(msg, spec) ==
    \/ msg.message_type = spec.msg_type
    \/ spec.msg_type = "Note" /\ msg.message_type \in {"NoteOn", "NoteOff"}

ChannelAccepted(msg, spec) ==
    spec.channel.kind = "Any" \/ spec.channel.n = msg.channel

NumberAccepted(msg, spec) ==
    \/ spec.number = None
    \/ /\ NumberOf(msg) # None
       /\ \/ spec.number[1].kind = "Single" /\ NumberOf(msg)[1] = spec.number[1].n
          \/ spec.number[1].kind = "Multiple" /\ NumberOf(msg)[1] \in spec.number[1].numbers
          \/ spec.number[1].kind = "Special" /\ spec.number[1].s \in {"any", "Any", "ANY"}

\* the runs of the pipelines that the message would trigger now
Triggered(msg) ==
    process_midi_message(EngineState, msg, router, config.mappings, TRUE, now).runs

\* C30: a MIDI message triggers a routed mapping only if its type matches
\* the type of the mapping's MIDI spec, its channel matches (`any` matches
\* every channel) and its number matches (a single value, a member of a
\* set, or the literal any); a message that fails one of the three
\* triggers nothing.
C30_MidiTriggersOnlyOnMatch ==
    PipeRuns("Keyed") =>
        \A msg \in PipeMidiMessages :
            LET spec == config.mappings[1].source.midi_message[1] IN
            /\ Triggered(msg) # <<>>
                   => /\ TypeAccepted(msg, spec)
                      /\ ChannelAccepted(msg, spec)
                      /\ NumberAccepted(msg, spec)
            /\ ~(TypeAccepted(msg, spec) /\ ChannelAccepted(msg, spec) /\ NumberAccepted(msg, spec))
                   => Triggered(msg) = <<>>

\* a note of the set was played on the channel of the spec and triggered
\* the mapping
C30_Witness ==
    /\ PipeRuns("Keyed")
    /\ config.mappings[1].source.midi_message[1].channel.kind = "Number"
    /\ config.mappings[1].source.midi_message[1].number[1].kind = "Multiple"
    /\ last.op = "midi" /\ last.runs # <<>>
    /\ Committed(joysticks) = 3

\* ------------------------------------------------------------------
\* NumInterval (src/src/common.rs)
\* ------------------------------------------------------------------
InsideOf(lo, hi, v) == lo <= v /\ v <= hi

\* C31: for an interval built from two endpoints in either order (stored with
\* from <= to) and every value v: clamp(v) lies in the interval; if v lies in
\* it then invert(v) = from + to - v lies in it and invert(invert(v)) = v;
\* invert of a value outside the interval is an error
C31_ClampAndInvert ==
    last.op = "compared" =>
        LET lo == Min(last.a, last.b)
            hi == Max(last.a, last.b)
        IN /\ last.r = [from |-> lo, to |-> hi]
           /\ InsideOf(lo, hi, last.clamped)
           /\ InsideOf(lo, hi, last.v) => last.clamped = last.v
           /\ InsideOf(lo, hi, last.v) =>
                 /\ last.inverted = <<TRUE, lo + hi - last.v>>
                 /\ InsideOf(lo, hi, last.inverted[2])
                 /\ last.twice = <<TRUE, last.v>>
           /\ ~InsideOf(lo, hi, last.v) => ~last.inverted[1]

\* endpoints given in descending order, a value strictly inside that is not
\* the midpoint, inverted twice
C31_Witness ==
    /\ last.op = "compared"
    /\ last.a > last.b
    /\ last.b < last.v /\ last.v < last.a
    /\ last.inverted[1] /\ last.inverted[2] # last.v
    /\ last.twice = <<TRUE, last.v>>

\* C32: the comparison of two intervals orders by span first and by `from`
\* when the spans are equal, and two intervals compare equal (==) exactly when
\* their spans are equal, for endpoints given in either order
C32_OrderedBySpanThenFrom ==
    last.op = "compared" =>
        LET span1 == Abs(last.a - last.b)
            span2 == Abs(last.c - last.d)
            from1 == Min(last.a, last.b)
            from2 == Min(last.c, last.d)
        IN /\ span1 < span2 => last.cmp = "Less"
           /\ span1 > span2 => last.cmp = "Greater"
           /\ span1 = span2 => last.cmp = Cmp(from1, from2)
           /\ last.eq <=> span1 = span2

\* a shorter interval that starts further right than a longer one given in
\* descending order
C32_Witness ==
    /\ last.op = "compared"
    /\ last.c > last.d
    /\ Abs(last.a - last.b) < Abs(last.c - last.d)
    /\ Min(last.a, last.b) > Min(last.c, last.d)
    /\ last.cmp = "Less" /\ ~last.eq

\* C35: with an empty step list, a raw input equal to the source range's lower
\* (upper) endpoint produces the destination range's lower (upper) endpoint,
\* for every pair of source and destination ranges, also ranges of equal span
\* and different endpoints
C35_EndpointsMapToEndpoints ==
    (last.op = "transformed" /\ last.src.from < last.src.to) =>
        last.out = AsF32(IF last.end = "from" THEN last.dst.from ELSE last.dst.to)


\* ------------------------------------------------------------------
\* The hold factor of the steering step
\* ------------------------------------------------------------------
\* the only mapping of the running configuration starts with a steering step
SteeringRuns ==
    /\ phase = "running"
    /\ config.mappings[1].transformation # <<>>
    /\ config.mappings[1].transformation[1].kind = "Steering"

\* the hold factor that the steering step of a run resolves from the
\* joysticks as they are when the run starts
ResolvedHold == HoldFactorUnit(config.mappings[1].transformation[1].p.hold_factor, joysticks)

\* C33: the hold factor the steering step resolves on each call lies in
\* [0,1], for a constant and for a cross-control reference, whatever value
\* the referenced control holds (0 for a control or joystick that does not
\* exist at run time)
C33_HoldFactorInUnitInterval ==
    [][(SteeringRuns /\ WheelRanStep) => (0 <= ResolvedHold /\ ResolvedHold <= FixedOne)]_vars


\* ------------------------------------------------------------------
\* The idle-tick list
\* ------------------------------------------------------------------
\* C34: idle_tick_mappings contains no mapping twice, also when the source
\* device key of the mapping matched several opened runtime devices, so that
\* an idle tick runs the pipeline of each such mapping at most once
C34_IdleTickMappingsDistinct ==
    /\ \A i \in DOMAIN idle_tick_mappings, j \in DOMAIN idle_tick_mappings :
          i # j => idle_tick_mappings[i] # idle_tick_mappings[j]
    /\ last.op = "idle_tick" =>
          \A i \in DOMAIN last.runs, j \in DOMAIN last.runs :
              i # j => last.runs[i].m # last.runs[j].m


\* ------------------------------------------------------------------
\* Virtual joysticks after a hot reload (ReloadSpec)
\* ------------------------------------------------------------------
\* the engine runs on a configuration that a hot reload has put in force
HotReloaded == phase = "running" /\ loads > 1

\* the mappings that initialize has put into the router
RoutedMappings == {config.mappings[i] : i \in UNION {Range(router[n]) : n \in DOMAIN router}}

\* C36: after every successful hot reload, the destination control of each
\* routed mapping exists on the live virtual joystick, also when the joystick
\* is persistent and was kept from the previous configuration while the new
\* configuration adds or changes its controls
C36_DestinationControlExists ==
    HotReloaded =>
        \A m \in RoutedMappings :
            /\ m.destination.device_key \in DOMAIN joysticks
            /\ m.destination.control_key
                   \in DOMAIN joysticks[m.destination.device_key].control_states

\* C37: after every successful hot reload, the live virtual joysticks are the
\* joysticks present and enabled in the new configuration: a joystick whose
\* entry was removed does not stay alive, persistent or not
C37_LiveJoysticksAreTheEnabledOnes ==
    HotReloaded =>
        DOMAIN joysticks
            = {k \in DOMAIN config.virtual_joysticks : config.virtual_joysticks[k].enabled}


\* ------------------------------------------------------------------
\* The current range on idle ticks
\* ------------------------------------------------------------------
\* C38: for a mapping that is run on idle ticks, each step receives the same
\* current_range on an idle tick as on an active input (a step that follows
\* an Integrate step sees the integration range on idle ticks too), and so
\* does the final remap to the destination
C38_SameRangeOnIdleTick ==
    (phase = "running" /\ requires_idle_tick(config.mappings[1])) =>
        \A value \in RawReadings, n \in 0..Len(config.mappings[1].transformation) :
            HandedOn(config.mappings[1], n, value, TRUE).range
                = HandedOn(config.mappings[1], n, value, FALSE).range


\* ------------------------------------------------------------------
\* The pedal smoother reaches its target (PedalSpec)
\* ------------------------------------------------------------------
\* the smoother holds the target of the reading v / its output equals it
TargetIs(v) == PedalRuns /\ PedalStored(step_data) /\ PedalTarget(step_data) = AsF32(v)
OutputIs(v) == PedalRuns /\ PedalStored(step_data) /\ PedalOut(step_data) = AsF32(v)

\* an idle tick that runs later than the previous run of the step and, when
\* the output has to fall, later than fall_delay after the last active input
QuietTick ==
    /\ PedalRuns /\ PedalStored(step_data)
    /\ SinceCall(step_data, now) > 0
    /\ (PedalTarget(step_data) < PedalOut(step_data) /\ IsSome(PedalSmoother.p.fall_delay))
           => PedalSmoother.p.fall_delay[1] < SinceInput(step_data, now)
    /\ PedalIdleTick

C40_AtMostOneOverlayThread ==
    \A inst \in DOMAIN overlay.threads : ThreadsOf(overlay, inst) <= 1


====
